---------------------------- MODULE Spec2Model ----------------------------
(***************************************************************************)
(* A model of the IAPD filing loader and risk scoring scripts.             *)
(*                                                                         *)
(*   SpecLoad    the loaders (ingest_df, ingest_csv_file, load_file)       *)
(*               appending to the table ia_filing                          *)
(*   SpecDetail  one file with client and Section 11 columns, ingested     *)
(*   SpecRun     a run of the loader's main over its tasks, with one       *)
(*               worker or two; SpecRunFair adds weak fairness             *)
(*   SpecPipeline  scoring processes started beside a loader run           *)
(*   SpecChange  the populate_ia_change query over the filings of a firm   *)
(*   SpecNorm    the normalized-weighted scoring run; SpecNormTwice runs   *)
(*               it again; SpecCategorize and SpecVolatility apply two of  *)
(*               its functions                                             *)
(*   SpecPoint   the point-based scoring run; SpecPointTxn runs it         *)
(*               statement by statement inside its transaction             *)
(*   SpecRead    read_s3 call by call; SpecReadFair adds weak fairness     *)
(*   SpecSql     the two SQL orchestration scripts                         *)
(*   SpecLatest  the latest filing of a firm, as the API and the size      *)
(*               factor select it                                          *)
(*   SpecFetch   fetch and unzip runs over the two directories             *)
(*   SpecYear    the year three programs derive from a file name           *)
(*                                                                         *)
(* Text is a tuple of one-character strings, so that the regular           *)
(* expressions, strip() and the numeric coercions of the code are computed *)
(* rather than assumed.  A nullable value is a tuple of length at most     *)
(* one: NULL is the empty tuple and Some(v) holds v.                       *)
(***************************************************************************)
EXTENDS Integers, Sequences, FiniteSets, TLC

VARIABLES
    schema_applied, \* loader: scripts/schema.sql was found and executed
    ia_filing,      \* the table ia_filing, rows in physical order
    ia_columns,     \* the columns of ia_filing; {} while the table does not exist
    results,        \* loader: the result reported for each ingested file
    ia_change,      \* change query: the rows inserted into ia_change
    sql,            \* SQL orchestration: the script run, its position, what it executed
    disk,           \* fetch and unzip: the files of the two directories, the run under way
    years,          \* a file name and the year each program has derived from it
    components,     \* normalized scoring: risk_components of main
    overall,        \* normalized scoring: overall_risk_scores
    results_df,     \* normalized scoring: the result rows built by main
    score_df,       \* normalized scoring: df of main, the frame read from ia_filing
    risk_scores,    \* normalized scoring: the table risk_scores, by crd
    tables,         \* normalized scoring: the tables its database has
    response,       \* the API over the normalized tables: the responses given
    args,           \* normalized scoring: the command line flags
    firms,          \* point-based scoring: the rows fetched by main
    ia_risk_score,  \* point-based scoring: the table ia_risk_score
    txn,            \* point-based scoring: ia_risk_score as the open transaction sees it
    run,            \* scoring: the runs made so far and what they left
    tasks,          \* loader run: the tasks of main, each with its progress
    workers,        \* loader run: args.workers
    scoring,        \* the scoring processes running beside a loader run
    s3read,         \* loader run over S3: the keys, the read under way, the results
    pc              \* position of the run being modelled

vars == <<schema_applied, ia_filing, ia_columns, results, ia_change, sql, disk,
          years, components,
          overall, results_df, score_df, risk_scores, tables, response, args, firms,
          ia_risk_score, txn, run, tasks, workers, scoring, s3read, pc>>

runVars    == <<tasks, workers, scoring, s3read>>
loadVars   == <<schema_applied, ia_columns, results, runVars>>
changeVars == <<ia_change, sql, disk, years>>
normVars   == <<components, overall, results_df, score_df, risk_scores, tables,
                response, args>>
pointVars  == <<firms, ia_risk_score, txn, run>>

-----------------------------------------------------------------------------
(* Nullable values and text                                                *)

NULL == <<>>
Some(v) == <<v>>
IsNull(m) == m = NULL
Get(m) == m[1]

Min2(a, b) == IF a <= b THEN a ELSE b
Max2(a, b) == IF a >= b THEN a ELSE b
SetMin(S) == CHOOSE x \in S : \A y \in S : x <= y

Digits == {"0", "1", "2", "3", "4", "5", "6", "7", "8", "9"}
IsDigit(c) == c \in Digits
DigitVal(c) ==
    CASE c = "0" -> 0 [] c = "1" -> 1 [] c = "2" -> 2 [] c = "3" -> 3
      [] c = "4" -> 4 [] c = "5" -> 5 [] c = "6" -> 6 [] c = "7" -> 7
      [] c = "8" -> 8 [] c = "9" -> 9

\* int() of a text made of digits
RECURSIVE IntOf(_)
IntOf(t) ==
    IF t = <<>> THEN 0
    ELSE 10 * IntOf(SubSeq(t, 1, Len(t) - 1)) + DigitVal(t[Len(t)])

AllDigits(t) == t # <<>> /\ \A i \in 1..Len(t) : IsDigit(t[i])

\* str.strip(): leading and trailing blanks removed
RECURSIVE LStrip(_)
LStrip(t) == IF t # <<>> /\ Head(t) = " " THEN LStrip(Tail(t)) ELSE t
RECURSIVE RStrip(_)
RStrip(t) ==
    IF t # <<>> /\ t[Len(t)] = " " THEN RStrip(SubSeq(t, 1, Len(t) - 1)) ELSE t
Strip(t) == RStrip(LStrip(t))

\* A cell of a frame read by pandas is a text; the empty text is NaN.
NaN == <<>>
\* Series.astype(str): NaN becomes the text 'nan'
AstypeStr(cell) == IF cell = NaN THEN <<"n", "a", "n">> ELSE cell
\* pd.to_numeric(errors='coerce'): a number, or NULL for what is no number
ToNumeric(cell) == IF AllDigits(cell) THEN Some(IntOf(cell)) ELSE NULL


-----------------------------------------------------------------------------
(* The loaders: scripts/load_iapd_to_postgres.py, scripts/load_csv_files.py *)
(* and load_all_files.py                                                    *)

\* re.search(pattern 'ia' + n digits): the leftmost position of a match, 0 if none
IaDigitsAt(filename, i, n) ==
    /\ i + 1 + n <= Len(filename)
    /\ filename[i] = "i"
    /\ filename[i + 1] = "a"
    /\ \A k \in 2..(n + 1) : IsDigit(filename[i + k])
SearchIa(filename, n) ==
    LET hits == {i \in 1..Len(filename) : IaDigitsAt(filename, i, n)}
    IN  IF hits = {} THEN 0 ELSE SetMin(hits)

\* load_iapd_to_postgres.extract_filing_date: the two-digit-year pattern is
\* tried first, the four-digit-year pattern only when it does not match
extract_filing_date(filename) ==
    LET m2 == SearchIa(filename, 6)
        m4 == SearchIa(filename, 8)
    IN  IF m2 # 0
        THEN LET month == SubSeq(filename, m2 + 2, m2 + 3)
                 day   == SubSeq(filename, m2 + 4, m2 + 5)
                 yy    == SubSeq(filename, m2 + 6, m2 + 7)
                 year4 == IF IntOf(yy) >= 20 THEN <<"2", "0">> \o yy
                                             ELSE <<"1", "9">> \o yy
             IN  Some(year4 \o <<"-">> \o month \o <<"-">> \o day)
        ELSE IF m4 # 0
        THEN LET month == SubSeq(filename, m4 + 2, m4 + 3)
                 day   == SubSeq(filename, m4 + 4, m4 + 5)
                 year  == SubSeq(filename, m4 + 6, m4 + 9)
             IN  Some(year \o <<"-">> \o month \o <<"-">> \o day)
        ELSE NULL

\* load_csv_files.extract_filing_date: the four-digit-year pattern only
extract_filing_date_csv(filename) ==
    LET m4 == SearchIa(filename, 8)
    IN  IF m4 # 0
        THEN LET month == SubSeq(filename, m4 + 2, m4 + 3)
                 day   == SubSeq(filename, m4 + 4, m4 + 5)
                 year  == SubSeq(filename, m4 + 6, m4 + 9)
             IN  Some(year \o <<"-">> \o month \o <<"-">> \o day)
        ELSE NULL

\* the source headers the model follows, and the FIELD_MAPPING entries for them
H_SEC  == "SEC#"
H_NAME == "Primary Business Name"
H_RAUM == "5F(2)(c)"
H_ADV  == "Latest ADV Filing Date"
H_5DA  == "5D(a)(1)"
H_5DB  == "5D(b)(1)"
H_11   == "11"
H_11A  == "11A Count"
H_11B  == "11B Count"
\* of the fourteen headers 5D(a)(1)..5D(n)(1), the two the model follows
ClientHeaders == {H_5DA, H_5DB}
FIELD_MAPPING ==
    [sec_number |-> H_SEC, firm_name |-> H_NAME, raum |-> H_RAUM]

\* df[header] of one row: the cell, NaN where the frame has no such column
Cell(df, row, header) == IF header \in df.columns THEN row[header] ELSE NaN

\* the text of a header, for the tests the code makes on column names
HeaderText(h) ==
    CASE h = H_11  -> <<"1", "1">>
      [] h = H_11A -> <<"1", "1", "A", " ", "C", "o", "u", "n", "t">>
      [] h = H_11B -> <<"1", "1", "B", " ", "C", "o", "u", "n", "t">>
      [] h = H_5DA -> <<"5", "D", "(", "a", ")", "(", "1", ")">>
      [] h = H_5DB -> <<"5", "D", "(", "b", ")", "(", "1", ")">>
      [] h = H_SEC -> <<"S", "E", "C", "#">>
      [] h = H_RAUM -> <<"5", "F", "(", "2", ")", "(", "c", ")">>
      [] h = H_NAME ->
           <<"P", "r", "i", "m", "a", "r", "y", " ", "B", "u", "s", "i",
            "n", "e", "s", "s", " ", "N", "a", "m", "e">>
      [] h = H_ADV ->
           <<"L", "a", "t", "e", "s", "t", " ", "A", "D", "V", " ", "F",
            "i", "l", "i", "n", "g", " ", "D", "a", "t", "e">>
\* `sub in text` and text.startswith(sub)
Contains(text, sub) ==
    \E i \in 1..(Len(text) - Len(sub) + 1) : SubSeq(text, i, i + Len(sub) - 1) = sub
StartsWith(text, sub) ==
    Len(sub) <= Len(text) /\ SubSeq(text, 1, Len(sub)) = sub
CountWord == <<"C", "o", "u", "n", "t">>
Section11Tags ==
    {<<"1", "1", x>> : x \in {"A", "B", "C", "D", "E", "F", "G", "H"}}

\* DataFrame.sum(axis=1) over the columns cols, after pd.to_numeric(errors=
\* 'coerce'): what is no number is NaN, and sum skips NaN
RECURSIVE SumCoerced(_, _)
SumCoerced(cols, row) ==
    IF cols = {} THEN 0
    ELSE LET h == CHOOSE x \in cols : TRUE
             v == ToNumeric(row[h])
         IN  (IF IsNull(v) THEN 0 ELSE Get(v)) + SumCoerced(cols \ {h}, row)

\* normalize_dataframe: client_columns, the headers 5D(a)(1)..5D(n)(1) that
\* the frame has, and client_count, their sum or the scalar 0
client_columns(df) == ClientHeaders \cap df.columns
client_countNoSkip(df, row) ==
    IF client_columns(df) = {} THEN Some(0)
    ELSE IF \E h \in client_columns(df) : IsNull(ToNumeric(row[h])) THEN NULL
    ELSE Some(SumCoerced(client_columns(df), row))
client_count(df, row) ==
    IF client_columns(df) = {} THEN Some(0)
    ELSE Some(SumCoerced(client_columns(df), row))

\* load_iapd_to_postgres.count_disciplinary_disclosures for one row: the
\* column '11' when the frame has it, else the sum of the count columns,
\* else the scalar 0.  The cells of a count column are numbers or NaN.
section_11_cols(df) ==
    {h \in df.columns :
        /\ Contains(HeaderText(h), CountWord)
        /\ \E x \in Section11Tags : Contains(HeaderText(h), x)}
count_disciplinary_disclosures(df, row) ==
    IF H_11 \in df.columns
    THEN IF row[H_11] = <<"Y">> THEN 1 ELSE 0
    ELSE IF section_11_cols(df) # {}
    THEN SumCoerced(section_11_cols(df), row)
    ELSE 0
\* load_csv_files.count_disciplinary_disclosures: the count columns only
section_11_cols_csv(df) ==
    {h \in df.columns :
        StartsWith(HeaderText(h), <<"1", "1">>) /\ Contains(HeaderText(h), CountWord)}
count_disciplinary_disclosures_csv(df, row) ==
    IF section_11_cols_csv(df) # {}
    THEN SumCoerced(section_11_cols_csv(df), row)
    ELSE 0

\* the assignments to `out` whose value is a Series of df: a mapped column,
\* client_count over client columns, the disciplinary count as a Series
MappedIn(df) == df.columns \cap {FIELD_MAPPING[f] : f \in DOMAIN FIELD_MAPPING}
SeriesAssigned(df, csv) ==
    \/ MappedIn(df) # {}
    \/ client_columns(df) # {}
    \/ IF csv THEN section_11_cols_csv(df) # {}
       ELSE H_11 \in df.columns \/ section_11_cols(df) # {}

\* normalize_dataframe of load_iapd_to_postgres (csv = FALSE, fdate from
\* extract_filing_date) and of load_csv_files (csv = TRUE, fdate from its own
\* extract_filing_date).  The frame `out` gets its rows from the first Series
\* assigned to it: with none it has no rows, and the scalar filing_date
\* assigned before the first Series is NaN in the rows that Series brings.
\* The column filing_date exists only when a date was derived from the name.
NormalizeWith(df, fdate, csv) ==
    LET n == IF SeriesAssigned(df, csv) THEN Len(df.rows) ELSE 0
    IN  [i \in 1..n |->
            [sec_number  |-> Some(Strip(AstypeStr(Cell(df, df.rows[i], H_SEC)))),
             firm_name   |-> IF Cell(df, df.rows[i], H_NAME) = NaN
                             THEN NULL ELSE Some(Cell(df, df.rows[i], H_NAME)),
             raum        |-> ToNumeric(Cell(df, df.rows[i], H_RAUM)),
             client_count |-> client_count(df, df.rows[i]),
             disciplinary_disclosures |->
                 Some(IF csv THEN count_disciplinary_disclosures_csv(df, df.rows[i])
                             ELSE count_disciplinary_disclosures(df, df.rows[i])),
             filing_date |-> IF MappedIn(df) # {} THEN fdate ELSE NULL]]
normalize_dataframe(df, filename) ==
    NormalizeWith(df, extract_filing_date(filename), FALSE)
normalize_dataframe_csv(df, filename) ==
    NormalizeWith(df, extract_filing_date_csv(filename), TRUE)
NormalizedColumns(fdate) ==
    {"sec_number", "firm_name", "raum", "client_count", "disciplinary_disclosures"}
        \cup (IF IsNull(fdate) THEN {} ELSE {"filing_date"})

\* DataFrame.dropna(subset=...): the rows whose listed columns are all present
RECURSIVE SelectRows(_, _)
SelectRows(rows, keep) ==
    IF rows = <<>> THEN <<>>
    ELSE IF keep[1] THEN <<Head(rows)>> \o SelectRows(Tail(rows), Tail(keep))
         ELSE SelectRows(Tail(rows), Tail(keep))
dropna(rows, subset) ==
    SelectRows(rows, [i \in 1..Len(rows) |->
                         \A c \in subset : ~IsNull(rows[i][c])])

Key(r) == <<r.sec_number, r.filing_date>>
KeysOf(rows) == {Key(rows[i]) : i \in 1..Len(rows)}

\* What the table created by scripts/schema.sql accepts: the key
\* (sec_number, filing_date) is unique and both of its columns are NOT NULL.
SchemaAccepts(table, rows) ==
    /\ \A i \in 1..Len(rows) :
          /\ ~IsNull(rows[i].sec_number)
          /\ ~IsNull(rows[i].filing_date)
          /\ Key(rows[i]) \notin KeysOf(table)
    /\ \A i, j \in 1..Len(rows) : i # j => Key(rows[i]) # Key(rows[j])

\* DataFrame.to_sql("ia_filing", if_exists="append"): creates the table from the
\* frame's columns when it does not exist, fails when the frame has a column
\* the table lacks, and inserts all rows of the frame in one statement.
\* tableCols = {} stands for "no table yet".
ToSqlOk(tableCols, table, frameCols, rows) ==
    /\ tableCols # {} => frameCols \subseteq tableCols
    /\ schema_applied => SchemaAccepts(table, rows)
ToSqlCols(tableCols, frameCols) == IF tableCols = {} THEN frameCols ELSE tableCols

\* one line of the run's report; loader and file keep the task it reports on
Result(loader, f, status, count) ==
    [loader |-> loader, file |-> f, status |-> status, count |-> count]
\* the dropped rows a result reports: the result texts of ingest_df and
\* ingest_csv_file and the tuple load_file returns carry the number of rows
\* loaded and no other number
ReportedDropped(result) == 0


\* pd.to_datetime(errors='coerce') of a cell written MM/DD/YYYY: the date as
\* YYYY-MM-DD, or NULL (NaT) for anything else
ParseAdvDate(cell) ==
    IF /\ Len(cell) = 10
       /\ cell[3] = "/"
       /\ cell[6] = "/"
       /\ \A i \in {1, 2, 4, 5, 7, 8, 9, 10} : IsDigit(cell[i])
       /\ IntOf(SubSeq(cell, 1, 2)) \in 1..12
       /\ IntOf(SubSeq(cell, 4, 5)) \in 1..31
    THEN Some(SubSeq(cell, 7, 10) \o <<"-">> \o SubSeq(cell, 1, 2)
                \o <<"-">> \o SubSeq(cell, 4, 5))
    ELSE NULL

\* ---- the source files the runs draw from ----
MaxIngest == 2          \* files ingested in one behaviour

Name6   == <<"i", "a", "0", "1", "0", "2", "2", "0", ".", "x", "l", "s", "x">>
Name8   == <<"i", "a", "0", "1", "0", "2", "2", "0", "2", "0", ".", "c", "s", "v">>
NameNo  == <<"a", "d", "v", "i", "s", "e", "r", "s", ".", "x", "l", "s", "x">>
Name2025 == <<"i", "a", "0", "7", "0", "1", "2", "0", "2", "5", ".", "c", "s", "v">>
FileNames == {Name6, Name8, Name2025, NameNo}

Sec1    == <<"8", "0", "1", "-", "1">>
Sec1Pad == <<"8", "0", "1", "-", "1", " ">>
Sec2    == <<"8", "0", "1", "-", "2">>
AdvDate == <<"0", "1", "/", "0", "2", "/", "2", "0", "2", "0">>

SourceRow(sec, name, raum, adv) ==
    (H_SEC :> sec) @@ (H_NAME :> name) @@ (H_RAUM :> raum) @@ (H_ADV :> adv)
RowA == SourceRow(Sec1, <<"A">>, <<"1", "0", "0">>, AdvDate)
RowB == SourceRow(Sec1Pad, <<"A">>, <<"n", "/", "a">>, AdvDate)
RowC == SourceRow(NaN, <<"B">>, <<"4", "0">>, AdvDate)
RowD == SourceRow(Sec2, <<"B">>, <<"4", "0">>, NaN)
RowSeqs == {<<RowA, RowC>>, <<RowA, RowB>>, <<RowD>>}
AllHeaders == {H_SEC, H_NAME, H_RAUM, H_ADV}
ColumnSets == {AllHeaders, AllHeaders \ {H_SEC}}
\* a file: its name, its header row, and its rows restricted to those headers
File(name, columns, rows) ==
    [name |-> name, columns |-> columns,
     rows |-> [i \in 1..Len(rows) |-> [h \in columns |-> rows[i][h]]]]
Files == {File(n, c, rs) : n \in FileNames, c \in ColumnSets, rs \in RowSeqs}

\* ---- the loaders ----
\* the tail shared by ingest_df and ingest_csv_file: dropna on sec_number, the
\* empty-frame return, to_sql, and the except branch
IngestFrame(loader, f, normalized, frameCols) ==
    LET clean == dropna(normalized, {"sec_number"})
    IN  IF Len(clean) = 0
        THEN /\ results' = Append(results, Result(loader, f, "none", 0))
             /\ UNCHANGED <<ia_filing, ia_columns>>
        ELSE IF ToSqlOk(ia_columns, ia_filing, frameCols, clean)
        THEN /\ ia_filing' = ia_filing \o clean
             /\ ia_columns' = ToSqlCols(ia_columns, frameCols)
             /\ results' = Append(results, Result(loader, f, "loaded", Len(clean)))
        ELSE /\ results' = Append(results, Result(loader, f, "error", 0))
             /\ UNCHANGED <<ia_filing, ia_columns>>

\* load_iapd_to_postgres.ingest_df
ingest_df(f) ==
    /\ Len(results) < MaxIngest
    /\ IngestFrame("ingest_df", f, normalize_dataframe(f, f.name),
                   NormalizedColumns(extract_filing_date(f.name)))
    /\ UNCHANGED <<schema_applied, changeVars, normVars, pointVars, runVars, pc>>

\* src_dir.glob("*.csv") of load_csv_files.main
IsCsv(filename) ==
    /\ Len(filename) >= 4
    /\ SubSeq(filename, Len(filename) - 3, Len(filename)) = <<".", "c", "s", "v">>
\* load_csv_files.ingest_csv_file, called by main for the files *.csv
ingest_csv_file(f) ==
    /\ Len(results) < MaxIngest
    /\ IsCsv(f.name)
    /\ IngestFrame("ingest_csv_file", f, normalize_dataframe_csv(f, f.name),
                   NormalizedColumns(extract_filing_date_csv(f.name)))
    /\ UNCHANGED <<schema_applied, changeVars, normVars, pointVars, runVars, pc>>

\* load_all_files.load_file: the columns sec_number and filing_date exist only
\* when their source headers do; dropna and the final column selection raise
\* KeyError otherwise, which the except branch reports
LoadFileRows(f) ==
    [i \in 1..Len(f.rows) |->
        [sec_number  |-> IF f.rows[i][H_SEC] = NaN THEN NULL
                         ELSE Some(f.rows[i][H_SEC]),
         firm_name   |-> IF f.rows[i][H_NAME] = NaN THEN NULL
                         ELSE Some(f.rows[i][H_NAME]),
         raum        |-> NULL,
         client_count |-> NULL,
         disciplinary_disclosures |-> NULL,
         filing_date |-> ParseAdvDate(f.rows[i][H_ADV])]]
load_file(f) ==
    /\ Len(results) < MaxIngest
    /\ IF {H_SEC, H_ADV, H_NAME} \subseteq f.columns
       THEN LET df == dropna(LoadFileRows(f), {"sec_number", "filing_date"})
                cols == {"sec_number", "firm_name", "filing_date"}
            IN  IF Len(df) = 0
                THEN /\ results' = Append(results, Result("load_file", f, "none", 0))
                     /\ UNCHANGED <<ia_filing, ia_columns>>
                ELSE IF ToSqlOk(ia_columns, ia_filing, cols, df)
                THEN /\ ia_filing' = ia_filing \o df
                     /\ ia_columns' = ToSqlCols(ia_columns, cols)
                     /\ results' = Append(results, Result("load_file", f, "loaded", Len(df)))
                ELSE /\ results' = Append(results, Result("load_file", f, "error", 0))
                     /\ UNCHANGED <<ia_filing, ia_columns>>
       ELSE /\ results' = Append(results, Result("load_file", f, "error", 0))
            /\ UNCHANGED <<ia_filing, ia_columns>>
    /\ UNCHANGED <<schema_applied, changeVars, normVars, pointVars, runVars, pc>>

\* the columns of the table scripts/schema.sql creates, as far as modelled
SchemaColumns ==
    {"sec_number", "firm_name", "raum", "client_count", "disciplinary_disclosures",
     "filing_date"}

IdleChange == ia_change = <<>> /\ sql = <<>> /\ disk = <<>> /\ years = <<>>
IdleNorm ==
    /\ components = <<>>
    /\ overall = <<>>
    /\ results_df = <<>>
    /\ score_df = <<>>
    /\ risk_scores = <<>>
    /\ tables = {}
    /\ response = <<>>
    /\ args = <<>>
IdlePoint == firms = <<>> /\ ia_risk_score = <<>> /\ txn = <<>> /\ run = <<>>
IdleRun == tasks = <<>> /\ workers = 0 /\ scoring = <<>> /\ s3read = <<>>
IdleLoad ==
    /\ schema_applied = FALSE
    /\ ia_columns = {}
    /\ results = <<>>
    /\ IdleRun

\* main of load_iapd_to_postgres up to the task loop: schema.sql is executed
\* when the file exists, and otherwise the first to_sql creates the table
InitLoad ==
    /\ schema_applied \in BOOLEAN
    /\ ia_filing = <<>>
    /\ ia_columns = IF schema_applied THEN SchemaColumns ELSE {}
    /\ results = <<>>
    /\ IdleChange /\ IdleNorm /\ IdlePoint /\ IdleRun
    /\ pc = "load"

NextLoad ==
    \E f \in Files :
        \/ ingest_df(f)
        \/ ingest_csv_file(f)
        \/ load_file(f)

SpecLoad == InitLoad /\ [][NextLoad]_vars

\* ---- files with the client and Section 11 columns, ingested by one call ----
MaxDetailRows == 2
DetailHeaders == {H_SEC, H_NAME, H_5DA, H_5DB, H_11, H_11A, H_11B}
DetailRow(sec, a, b, flag, countA, countB) ==
    (H_SEC :> sec) @@ (H_NAME :> <<"A">>) @@ (H_5DA :> a) @@ (H_5DB :> b)
        @@ (H_11 :> flag) @@ (H_11A :> countA) @@ (H_11B :> countB)
\* the first row takes every kind of cell, the later rows fewer of them
DetailRows(i) ==
    IF i = 1
    THEN {DetailRow(Sec1, a, b, flag, countA, <<"1">>) :
            a \in {<<"3">>, NaN, <<"n", "/", "a">>}, b \in {<<"4">>, NaN},
            flag \in {<<"Y">>, <<"N">>, NaN}, countA \in {<<"2">>, NaN}}
    ELSE IF i = 2
    THEN {DetailRow(Sec2, a, <<"4">>, flag, <<"2">>, <<"1">>) :
            a \in {<<"3">>, <<"n", "/", "a">>}, flag \in {<<"Y">>, <<"N">>}}
    ELSE {DetailRow(Sec2, <<"3">>, <<"4">>, <<"N">>, <<"2">>, <<"1">>)}
RECURSIVE DetailRowSeqs(_)
DetailRowSeqs(n) ==
    IF n = 0 THEN {<<>>}
    ELSE {Append(rows, r) : rows \in DetailRowSeqs(n - 1), r \in DetailRows(n)}
DetailColumnSets ==
    {{H_SEC, H_NAME} \cup c \cup d :
        c \in SUBSET ClientHeaders, d \in SUBSET {H_11, H_11A, H_11B}}
DetailFiles ==
    {File(n, c, rs) : n \in {Name6, Name8}, c \in DetailColumnSets,
                      rs \in UNION {DetailRowSeqs(k) : k \in 1..MaxDetailRows}}

\* main with no scripts/schema.sql, and the first file of the run
InitDetail ==
    /\ schema_applied = FALSE
    /\ ia_filing = <<>>
    /\ ia_columns = {}
    /\ results = <<>>
    /\ IdleChange /\ IdleNorm /\ IdlePoint /\ IdleRun
    /\ pc = "detail"
NextDetail ==
    \E f \in DetailFiles :
        /\ results = <<>>
        /\ \/ ingest_df(f)
           \/ ingest_csv_file(f)
SpecDetail == InitDetail /\ [][NextDetail]_vars



-----------------------------------------------------------------------------
(* A run of load_iapd_to_postgres.main over its task list                  *)

MaxTasks == 2
NameStub == <<".", "_", "a", ".", "x", "l", "s", "x">>
NameFoia == <<"f", "o", "i", "a", ".", "c", "s", "v">>
\* process_task's first test and read_local's first line; the file names of
\* the model are lower case, as name.lower() makes them
IsFoia(name) == IsCsv(name) /\ Contains(name, <<"f", "o", "i", "a">>)
IsStub(name) == StartsWith(name, <<".", "_">>)

\* what reading the file of a task raises: RuntimeError for a stub, some
\* other exception for a file pandas cannot read, nothing otherwise
ReadRaises(t) ==
    IF IsStub(t.file.name) THEN "RuntimeError"
    ELSE IF ~t.readable THEN "ValueError"
    ELSE "none"
\* the except clauses of process_task: RuntimeError is a skip, and every
\* other exception a read can raise derives from Exception
process_task_exceptRuntimeOnly(exc) == IF exc = "RuntimeError" THEN "skip" ELSE "raise"
process_task_except(exc) == IF exc = "RuntimeError" THEN "skip" ELSE "error"

Task(f, readable) ==
    [file |-> f, readable |-> readable, state |-> "pending", saw |-> FALSE]
Busy == {i \in 1..Len(tasks) : tasks[i].state \in {"read", "ingest", "write"}}
DoneTasks == {i \in 1..Len(tasks) : tasks[i].state = "done"}
SetState(i, state) == [tasks EXCEPT ![i].state = state]

\* the loop of main, or a worker of the pool, takes the next task
pool_submit(i) ==
    /\ i <= Len(tasks)
    /\ pc = "run"
    /\ tasks[i].state = "pending"
    /\ \A j \in 1..(i - 1) : tasks[j].state # "pending"
    /\ Cardinality(Busy) < workers
    /\ tasks' = SetState(i, "read")
    /\ UNCHANGED <<ia_filing, schema_applied, ia_columns, results, workers, s3read,
                   scoring, changeVars, normVars, pointVars, pc>>

\* process_task up to the call of ingest_df
process_task(i) ==
    LET t == tasks[i] IN
    /\ i <= Len(tasks)
    /\ tasks[i].state = "read"
    /\ IF IsFoia(t.file.name)
       THEN /\ results' = Append(results, Result("process_task", t.file, "skip", 0))
            /\ tasks' = SetState(i, "done")
            /\ pc' = pc
       ELSE IF ReadRaises(t) = "none"
       THEN /\ tasks' = SetState(i, "ingest")
            /\ UNCHANGED <<results, pc>>
       ELSE IF process_task_except(ReadRaises(t)) = "raise"
       THEN /\ tasks' = SetState(i, "done")
            /\ pc' = "aborted"
            /\ results' = results
       ELSE /\ results' = Append(results,
                Result("process_task", t.file, process_task_except(ReadRaises(t)), 0))
            /\ tasks' = SetState(i, "done")
            /\ pc' = pc
    /\ UNCHANGED <<ia_filing, schema_applied, ia_columns, workers, s3read, scoring,
                   changeVars, normVars, pointVars>>

\* to_sql of ingest_df looks for the table ia_filing ...
to_sql_begin(i) ==
    /\ i <= Len(tasks)
    /\ tasks[i].state = "ingest"
    /\ tasks' = [tasks EXCEPT ![i].state = "write", ![i].saw = (ia_columns # {})]
    /\ UNCHANGED <<ia_filing, schema_applied, ia_columns, results, workers, s3read,
                   scoring, changeVars, normVars, pointVars, pc>>
\* ... and creates it when it saw none, which fails when another worker has
\* created it since; the rows of the file are inserted by one statement
to_sql_commit(i) ==
    LET f == tasks[i].file
        normalized == normalize_dataframe(f, f.name)
    IN  /\ i <= Len(tasks)
        /\ tasks[i].state = "write"
        /\ IF /\ ~tasks[i].saw
              /\ ia_columns # {}
              /\ Len(dropna(normalized, {"sec_number"})) > 0
           THEN /\ results' = Append(results, Result("ingest_df", f, "error", 0))
                /\ UNCHANGED <<ia_filing, ia_columns>>
           ELSE IngestFrame("ingest_df", f, normalized,
                            NormalizedColumns(extract_filing_date(f.name)))
        /\ tasks' = SetState(i, "done")
        /\ UNCHANGED <<schema_applied, workers, s3read, scoring, changeVars, normVars,
                       pointVars, pc>>

\* main prints "Done" when every task has returned
main_done ==
    /\ pc = "run"
    /\ DoneTasks = 1..Len(tasks)
    /\ pc' = "done"
    /\ UNCHANGED <<ia_filing, loadVars, changeVars, normVars, pointVars>>

RunFiles ==
    {File(Name6, AllHeaders, <<RowA>>), File(Name8, AllHeaders, <<RowB>>),
     File(NameNo, AllHeaders, <<RowD>>), File(NameStub, AllHeaders, <<RowA>>),
     File(NameFoia, AllHeaders, <<RowA>>)}
RunTasks ==
    {Task(f, TRUE) : f \in RunFiles}
        \cup {Task(File(Name6, AllHeaders, <<RowA>>), FALSE)}
\* the first task is any of RunTasks, the second any that is read, the later
\* ones a readable file
RunTasksAt(n) ==
    IF n = 1 THEN RunTasks
    ELSE IF n = 2
    THEN {t \in RunTasks : ~IsStub(t.file.name) /\ ~IsFoia(t.file.name)}
    ELSE {Task(File(NameNo, AllHeaders, <<RowD>>), TRUE)}
RECURSIVE TaskLists(_)
TaskLists(n) ==
    IF n = 0 THEN {<<>>}
    ELSE {Append(ts, t) : ts \in TaskLists(n - 1), t \in RunTasksAt(n)}

InitRun ==
    /\ schema_applied \in BOOLEAN
    /\ ia_filing = <<>>
    /\ ia_columns = IF schema_applied THEN SchemaColumns ELSE {}
    /\ results = <<>>
    /\ tasks \in UNION {TaskLists(n) : n \in 1..MaxTasks}
    /\ workers \in {1, 2}
    /\ scoring = <<>>
    /\ s3read = <<>>
    /\ IdleChange /\ IdleNorm /\ IdlePoint
    /\ pc = "run"
NextRun ==
    \/ \E i \in 1..MaxTasks :
          \/ pool_submit(i)
          \/ process_task(i)
          \/ to_sql_begin(i)
          \/ to_sql_commit(i)
    \/ main_done
SpecRun == InitRun /\ [][NextRun]_vars
\* every worker thread is scheduled, and a read or a statement returns
SpecRunFair == SpecRun /\ WF_vars(NextRun)


-----------------------------------------------------------------------------
(* read_s3 of scripts/load_iapd_to_postgres.py call by call, inside          *)
(* process_task and the sequential loop of main over the keys of a bucket    *)

MaxKeys == 2            \* keys listed in the bucket
Attempts == 2           \* for attempt in range(2)
\* `if attempt==1: raise` of the except clause
RaisesOnNever(attempt) == FALSE
RaisesOn(attempt) == attempt = 1
\* what a call of get_object and the read of its body can do
GetOutcomes == {"ok", "IncompleteRead", "other"}

KeyName == s3read.keys[s3read.i]
EndTask(result) ==
    [s3read EXCEPT !.at = "task", !.i = @ + 1,
                   !.log = Append(@, [name |-> KeyName, result |-> result,
                                      calls |-> s3read.calls,
                                      frame |-> s3read.frame])]
\* process_task up to the loop of read_s3: a FOIA file is skipped, and the
\* RuntimeError read_s3 raises for a stub is reported as a skip
s3_task ==
    /\ pc = "s3"
    /\ s3read.at = "task"
    /\ s3read.i <= Len(s3read.keys)
    /\ s3read' =
          IF IsFoia(KeyName) \/ IsStub(KeyName)
              THEN EndTask("skip")
              ELSE [s3read EXCEPT !.at = "loop", !.attempt = 0, !.calls = 0,
                                  !.data = "none", !.frame = "none"]
    /\ UNCHANGED <<ia_filing, schema_applied, ia_columns, results, tasks, workers,
                   scoring, changeVars, normVars, pointVars, pc>>
\* one pass of the loop: get_object and the read of the body; the loop goes
\* on to the parse when it breaks or has made its last pass.  The except
\* clause names botocore.exceptions.IncompleteRead; where the installed
\* botocore has no such name, looking it up raises while any exception of the
\* body is handled.  An exception leaving read_s3 is not a RuntimeError, so
\* it leaves process_task and main.
s3_get_object ==
    /\ pc = "s3"
    /\ s3read.at = "loop"
    /\ s3read.attempt < Attempts
    /\ \E outcome \in GetOutcomes :
          s3read' =
              [IF outcome = "ok"
                   THEN [s3read EXCEPT !.data = "complete", !.at = "parse"]
               ELSE IF ~s3read.resolves \/ outcome = "other"
                        \/ RaisesOn(s3read.attempt)
                   THEN [s3read EXCEPT !.at = "raised"]
               ELSE [s3read EXCEPT
                        !.data = "partial", !.attempt = @ + 1,
                        !.at = IF s3read.attempt + 1 < Attempts
                                   THEN "loop" ELSE "parse"]
                  EXCEPT !.calls = @ + 1]
    /\ UNCHANGED <<ia_filing, schema_applied, ia_columns, results, tasks, workers,
                   scoring, changeVars, normVars, pointVars, pc>>
\* read_excel or read_csv over the bytes read: a frame, or an exception
s3_parse ==
    /\ pc = "s3"
    /\ s3read.at = "parse"
    /\ \/ s3read' = [s3read EXCEPT !.at = "ingest", !.frame = s3read.data]
       \/ s3read' = [s3read EXCEPT !.at = "raised"]
    /\ UNCHANGED <<ia_filing, schema_applied, ia_columns, results, tasks, workers,
                   scoring, changeVars, normVars, pointVars, pc>>
\* ingest_df: one to_sql, and an exception of it is returned as the result
s3_ingest ==
    /\ pc = "s3"
    /\ s3read.at = "ingest"
    /\ \E written \in BOOLEAN :
          s3read' = [EndTask(IF written THEN "loaded" ELSE "error")
                        EXCEPT !.writes = @ + 1]
    /\ UNCHANGED <<ia_filing, schema_applied, ia_columns, results, tasks, workers,
                   scoring, changeVars, normVars, pointVars, pc>>
\* main after the last task
s3_main_done ==
    /\ pc = "s3"
    /\ s3read.at = "task"
    /\ s3read.i > Len(s3read.keys)
    /\ s3read' = [s3read EXCEPT !.at = "end"]
    /\ UNCHANGED <<ia_filing, schema_applied, ia_columns, results, tasks, workers,
                   scoring, changeVars, normVars, pointVars, pc>>

\* ---- the keys a run over a bucket starts from ----
KeysAt(n) ==
    IF n <= 2 THEN {Name6, Name8, NameStub, NameFoia} ELSE {Name6}
RECURSIVE KeyLists(_)
KeyLists(n) ==
    IF n = 0 THEN {<<>>}
    ELSE {Append(ks, k) : ks \in KeyLists(n - 1), k \in KeysAt(n)}

InitRead ==
    /\ \E keys \in UNION {KeyLists(n) : n \in 1..MaxKeys} :
       \E resolves \in BOOLEAN :
          s3read = [keys |-> keys, resolves |-> resolves, i |-> 1, at |-> "task",
                    attempt |-> 0, calls |-> 0, data |-> "none",
                    frame |-> "none", writes |-> 0, log |-> <<>>]
    /\ schema_applied = FALSE
    /\ ia_filing = <<>>
    /\ ia_columns = {}
    /\ results = <<>>
    /\ tasks = <<>>
    /\ workers = 1
    /\ scoring = <<>>
    /\ IdleChange /\ IdleNorm /\ IdlePoint
    /\ pc = "s3"
NextRead ==
    s3_task \/ s3_get_object \/ s3_parse \/ s3_ingest \/ s3_main_done
SpecRead == InitRead /\ [][NextRead]_vars
\* the process keeps running, and a call returns or raises
SpecReadFair == SpecRead /\ WF_vars(NextRead)

-----------------------------------------------------------------------------
(* The change query: the INSERT INTO ia_change ... SELECT of                *)
(* scripts/debug_percentage_calculation.py                                  *)

\* SQL's three-valued logic: "T", "F" and "U" (unknown, a comparison with NULL)
SqlLt(a, b) ==
    IF IsNull(a) \/ IsNull(b) THEN "U" ELSE IF Get(a) < Get(b) THEN "T" ELSE "F"
SqlGt(a, b) == SqlLt(b, a)
SqlNe(a, b) ==
    IF IsNull(a) \/ IsNull(b) THEN "U" ELSE IF Get(a) # Get(b) THEN "T" ELSE "F"
SqlAnd(x, y) ==
    IF x = "F" \/ y = "F" THEN "F" ELSE IF x = "T" /\ y = "T" THEN "T" ELSE "U"
COALESCE(a, b) == IF IsNull(a) THEN b ELSE a

\* Exact quotients: <<n, d>> with d > 0 stands for n / d.  The columns are
\* taken to be numeric, so that the division of the query is exact.
Rat(n, d) == <<n, d>>
RatLe(a, b) == a[1] * b[2] <= b[1] * a[2]
RatEq(a, b) == a[1] * b[2] = b[1] * a[2]
RatAdd(a, b) == <<a[1] * b[2] + b[1] * a[2], a[2] * b[2]>>
LEAST(a, b) == IF RatLe(a, b) THEN a ELSE b

\* CASE WHEN prev.q > 0 AND curr.q < prev.q
\*      THEN LEAST(((prev.q - curr.q) / prev.q) * 100, 100) ELSE 0 END
DropPctNoCap(prevQ, currQ) ==
    IF SqlAnd(SqlGt(prevQ, Some(0)), SqlLt(currQ, prevQ)) = "T"
    THEN Rat((Get(prevQ) - Get(currQ)) * 100, Get(prevQ))
    ELSE Rat(0, 1)
DropPct(prevQ, currQ) ==
    IF SqlAnd(SqlGt(prevQ, Some(0)), SqlLt(currQ, prevQ)) = "T"
    THEN LEAST(Rat((Get(prevQ) - Get(currQ)) * 100, Get(prevQ)), Rat(100, 1))
    ELSE Rat(0, 1)

\* CASE WHEN curr.disciplinary_disclosures >
\*           COALESCE(prev.disciplinary_disclosures, 0) THEN TRUE ELSE FALSE END
NewDiscFlag(prev, curr) ==
    SqlGt(curr.disciplinary_disclosures,
          COALESCE(prev.disciplinary_disclosures, Some(0))) = "T"

\* CASE WHEN curr.cco_name != prev.cco_name THEN TRUE ELSE FALSE END
CcoChanged(prev, curr) == SqlNe(curr.cco_name, prev.cco_name) = "T"

\* a filing date is the number YYYYMMDD; EXTRACT(YEAR FROM d)
Year(d) == d \div 10000

\* The joined rows curr x prev, as pairs <<i, j>> of positions in ia_filing:
\* prev has curr's sec_number and the greatest filing_date below curr's
\* (LEFT JOIN ... WHERE prev.sec_number IS NOT NULL)
JoinRows(t) ==
    {p \in (1..Len(t)) \X (1..Len(t)) :
        LET curr == t[p[1]]
            prev == t[p[2]]
            earlier == {k \in 1..Len(t) :
                           /\ t[k].sec_number = curr.sec_number
                           /\ t[k].filing_date < curr.filing_date}
        IN  /\ prev.sec_number = curr.sec_number
            /\ p[2] \in earlier
            /\ \A k \in earlier : t[k].filing_date <= prev.filing_date}

\* the orders in which a window may see the joined rows:
\* ORDER BY curr.filing_date, rows of equal date in any order
RECURSIVE Perms(_)
Perms(S) ==
    IF S = {} THEN {<<>>}
    ELSE UNION {{<<x>> \o q : q \in Perms(S \ {x})} : x \in S}
WindowOrders(t) ==
    {o \in Perms(JoinRows(t)) :
        \A a, b \in 1..Len(o) :
            a < b => t[o[a][1]].filing_date <= t[o[b][1]].filing_date}

\* the rows of p's partition (PARTITION BY curr.sec_number) in window order
RECURSIVE Partition(_, _, _)
Partition(t, o, sec) ==
    IF o = <<>> THEN <<>>
    ELSE IF t[Head(o)[1]].sec_number = sec
         THEN <<Head(o)>> \o Partition(t, Tail(o), sec)
         ELSE Partition(t, Tail(o), sec)
PositionIn(part, p) == CHOOSE k \in 1..Len(part) : part[k] = p

\* raum_drop_pct of a joined row
RaumDropOf(t, p) == DropPct(t[p[2]].raum, t[p[1]].raum)

\* LAG(raum_drop_pct, k) OVER (PARTITION BY curr.sec_number
\*                             ORDER BY curr.filing_date): NULL before the
\* partition's first rows
LagRaumDrop(t, o, p, k) ==
    LET part == Partition(t, o, t[p[1]].sec_number)
        pos  == PositionIn(part, p)
    IN  IF pos - k >= 1 THEN Some(RaumDropOf(t, part[pos - k])) ELSE NULL

\* CASE WHEN (raum_drop_pct + COALESCE(LAG(raum_drop_pct, 1) ..., 0)
\*            + COALESCE(LAG(raum_drop_pct, 2) ..., 0)) / 3 >= 7
\*      THEN TRUE ELSE FALSE END,  with raum_drop_pct read as the drop
\* computed for the row (PostgreSQL resolves the name only against the
\* columns of curr and prev; see populate_fails)
TrendDownFlag(t, o, p) ==
    LET total == RatAdd(RaumDropOf(t, p),
                   RatAdd(Get(COALESCE(LagRaumDrop(t, o, p, 1), Some(Rat(0, 1)))),
                          Get(COALESCE(LagRaumDrop(t, o, p, 2), Some(Rat(0, 1))))))
    IN  RatLe(Rat(7 * 3, 1), total)

\* EXTRACT(YEAR FROM curr.filing_date) - EXTRACT(YEAR FROM
\*   MIN(curr.filing_date) OVER (PARTITION BY curr.sec_number)):
\* the window ranges over the joined rows of the firm
AdviserAgeYears(t, o, p) ==
    LET part == Partition(t, o, t[p[1]].sec_number)
        first == SetMin({t[part[k][1]].filing_date : k \in 1..Len(part)})
    IN  Year(t[p[1]].filing_date) - Year(first)

\* one row of the SELECT
ChangeRow(t, o, p) ==
    LET curr == t[p[1]]
        prev == t[p[2]]
    IN  [sec_number        |-> curr.sec_number,
         filing_date       |-> curr.filing_date,
         raum_drop_pct     |-> DropPct(prev.raum, curr.raum),
         client_drop_pct   |-> DropPct(prev.client_count, curr.client_count),
         acct_drop_pct     |-> DropPct(prev.account_count, curr.account_count),
         new_disc_flag     |-> NewDiscFlag(prev, curr),
         cco_changed       |-> CcoChanged(prev, curr),
         trend_down_flag   |-> TrendDownFlag(t, o, p),
         owner_moves_12m   |-> 0,
         adviser_age_years |-> AdviserAgeYears(t, o, p),
         raum              |-> curr.raum]

\* The statement: INSERT ... SELECT ... LIMIT 1 inserts one of the SELECT's
\* rows, whichever the plan yields first (there is no ORDER BY), or nothing
\* when the SELECT is empty.
populate_ia_change ==
    /\ pc = "change"
    /\ \E o \in WindowOrders(ia_filing) :
          IF JoinRows(ia_filing) = {}
          THEN ia_change' = ia_change
          ELSE \E p \in JoinRows(ia_filing) :
                  ia_change' = Append(ia_change, ChangeRow(ia_filing, o, p))
    /\ pc' = "done"
    /\ UNCHANGED <<ia_filing, sql, disk, years, loadVars, normVars, pointVars>>

\* The statement raises (a database error; in PostgreSQL also when ia_filing
\* has no column raum_drop_pct for the trend expression to refer to): the
\* except branch reports it and nothing is inserted.
populate_fails ==
    /\ pc = "change"
    /\ pc' = "done"
    /\ UNCHANGED <<ia_filing, ia_change, sql, disk, years, loadVars, normVars, pointVars>>

\* ---- the filings the query runs over ----
MaxFilings == 4         \* filings in ia_filing when the query runs

FilingDates == <<20200102, 20200401, 20210105, 20220103, 20230102>>
RaumVals  == {NULL, Some(0 - 20), Some(0), Some(33), Some(40), Some(100)}
CountVals == {NULL, Some(0), Some(40), Some(100)}
CcoVals   == {NULL, Some("A"), Some("B")}
DiscVals  == {NULL, Some(0), Some(1)}
TrendRaumVals == {NULL, Some(33), Some(40), Some(79), Some(100)}
FirmVals  == {Some("801-1"), Some("801-2")}

Filing(sec, date, raum, clients, accounts, cco, disc) ==
    [sec_number |-> sec, filing_date |-> date, raum |-> raum,
     client_count |-> clients, account_count |-> accounts,
     cco_name |-> cco, disciplinary_disclosures |-> disc]

\* histories of one firm with at most two filings: the three quantities
\* free, or the officer and the disclosure count free
PairFilings(i) ==
    {Filing(Some("801-1"), FilingDates[i], r, c, a, Some("A"), Some(0)) :
        r \in RaumVals, c \in CountVals, a \in CountVals}
    \cup
    {Filing(Some("801-1"), FilingDates[i], r, Some(100), Some(100), o, d) :
        r \in {Some(40), Some(100)}, o \in CcoVals, d \in DiscVals}
PairHistories ==
    {<<f>> : f \in PairFilings(1)}
        \cup {<<f, g>> : f \in PairFilings(1), g \in PairFilings(2)}

\* histories of three to MaxFilings filings of two firms, stored in date
\* order, with the assets free in the first three filings and a rise or a
\* fall of the first firm's assets in the later ones
TrendFilings(i) ==
    IF i <= 3
        THEN {Filing(s, FilingDates[i], r, Some(100), Some(100), Some("A"), Some(0)) :
                 s \in FirmVals, r \in TrendRaumVals}
        ELSE {Filing(Some("801-1"), FilingDates[i], r, Some(100), Some(100),
                     Some("A"), Some(0)) : r \in {Some(40), Some(100)}}
RECURSIVE TrendHistoriesOf(_)
TrendHistoriesOf(n) ==
    IF n = 0 THEN {<<>>}
    ELSE {Append(h, f) : h \in TrendHistoriesOf(n - 1), f \in TrendFilings(n)}
TrendHistories == UNION {TrendHistoriesOf(n) : n \in 3..MaxFilings}

InitChange ==
    /\ ia_filing \in PairHistories \cup TrendHistories
    /\ ia_change = <<>>
    /\ sql = <<>>
    /\ disk = <<>>
    /\ years = <<>>
    /\ IdleLoad /\ IdleNorm /\ IdlePoint
    /\ pc = "change"

NextChange == populate_ia_change \/ populate_fails

SpecChange == InitChange /\ [][NextChange]_vars

-----------------------------------------------------------------------------
(* The SQL orchestration scripts: run_sql_risk_scoring.py and               *)
(* scripts/run_sql_scripts.py.  The SQL files they execute are inputs: each  *)
(* is missing, fails or executes.                                            *)

MaxSqlRuns == 2         \* runs of the orchestration scripts, one after another
\* the scripts both programs execute, in the order of their code
sql_scripts == <<"populate_ia_change.sql", "risk_score_procedure_fixed.sql">>
\* the position of a program before its n-th script
ScriptAt(n) == <<"script 1", "script 2">>[n]
Executed(step, ok) ==
    [sql EXCEPT !.log = Append(@, [run |-> sql.runs, step |-> step, ok |-> ok])]

\* ---- run_sql_risk_scoring.py ----
\* run_sql_file: open, execute, commit; any exception, of a missing file too,
\* is printed and False returned.  main goes on after True, returns after False.
run_sql_file(n) ==
    /\ pc = "sql"
    /\ sql.script = "run_sql_risk_scoring"
    /\ sql.at = ScriptAt(n)
    /\ \E outcome \in {"missing", "fails", "ok"} :
          sql' =
              IF outcome = "ok"
                  THEN [Executed(sql_scripts[n], TRUE)
                           EXCEPT !.at = IF n = Len(sql_scripts) THEN "call" ELSE ScriptAt(n + 1)]
              ELSE IF outcome = "fails"
                  THEN [Executed(sql_scripts[n], FALSE) EXCEPT !.at = "end"]
              ELSE [sql EXCEPT !.at = "end"]
    /\ UNCHANGED <<ia_filing, ia_change, disk, years, loadVars, normVars, pointVars, pc>>
\* step 3: CALL calc_risk_scores(); main returns when it raises
rs_call ==
    /\ pc = "sql"
    /\ sql.script = "run_sql_risk_scoring"
    /\ sql.at = "call"
    /\ \E ok \in BOOLEAN :
          sql' = [Executed("calc_risk_scores", ok)
                     EXCEPT !.at = IF ok THEN "results" ELSE "end"]
    /\ UNCHANGED <<ia_filing, ia_change, disk, years, loadVars, normVars, pointVars, pc>>
\* step 4: the statistics are read and printed
rs_results ==
    /\ pc = "sql"
    /\ sql.script = "run_sql_risk_scoring"
    /\ sql.at = "results"
    /\ sql' = [sql EXCEPT !.at = "end"]
    /\ UNCHANGED <<ia_filing, ia_change, disk, years, loadVars, normVars, pointVars, pc>>

\* ---- scripts/run_sql_scripts.py ----
\* `if success_count == len(sql_scripts)`
AllSucceededAny(success_count) == success_count >= 1
AllSucceeded(success_count) == success_count = Len(sql_scripts)
\* one pass of the loop of main: a missing script is passed over, a script
\* that cannot be read ends main with the exception, and execute_sql_script
\* returns whether the script executed
ss_script(n) ==
    /\ pc = "sql"
    /\ sql.script = "run_sql_scripts"
    /\ sql.at = ScriptAt(n)
    /\ \E outcome \in {"missing", "unreadable", "fails", "ok"} :
          LET next == IF n = Len(sql_scripts) THEN "summary" ELSE ScriptAt(n + 1)
          IN  sql' =
                  IF outcome = "ok"
                      THEN [Executed(sql_scripts[n], TRUE)
                               EXCEPT !.at = next, !.success_count = @ + 1]
                  ELSE IF outcome = "fails"
                      THEN [Executed(sql_scripts[n], FALSE) EXCEPT !.at = next]
                  ELSE IF outcome = "unreadable"
                      THEN [sql EXCEPT !.at = "raised"]
                  ELSE [sql EXCEPT !.at = next]
    /\ UNCHANGED <<ia_filing, ia_change, disk, years, loadVars, normVars, pointVars, pc>>
\* the summary, and CALL calc_risk_scores() when every script succeeded
ss_summary ==
    /\ pc = "sql"
    /\ sql.script = "run_sql_scripts"
    /\ sql.at = "summary"
    /\ \/ /\ AllSucceeded(sql.success_count)
          /\ \E ok \in BOOLEAN :
                sql' = [Executed("calc_risk_scores", ok) EXCEPT !.at = "end"]
       \/ /\ ~AllSucceeded(sql.success_count)
          /\ sql' = [sql EXCEPT !.at = "end"]
    /\ UNCHANGED <<ia_filing, ia_change, disk, years, loadVars, normVars, pointVars, pc>>

\* the program is started again after it has ended
sql_again ==
    /\ pc = "sql"
    /\ sql.at \in {"end", "raised"}
    /\ sql.runs < MaxSqlRuns
    /\ \E script \in {"run_sql_risk_scoring", "run_sql_scripts"} :
          sql' = [sql EXCEPT !.script = script, !.at = ScriptAt(1), !.success_count = 0,
                             !.runs = @ + 1]
    /\ UNCHANGED <<ia_filing, ia_change, disk, years, loadVars, normVars, pointVars, pc>>

InitSql ==
    /\ \E script \in {"run_sql_risk_scoring", "run_sql_scripts"} :
          sql = [script |-> script, at |-> ScriptAt(1), success_count |-> 0, runs |-> 1,
                 log |-> <<>>]
    /\ ia_filing = <<>>
    /\ ia_change = <<>>
    /\ disk = <<>>
    /\ years = <<>>
    /\ IdleLoad /\ IdleNorm /\ IdlePoint
    /\ pc = "sql"
NextSql ==
    \/ \E n \in 1..Len(sql_scripts) : run_sql_file(n) \/ ss_script(n)
    \/ rs_call
    \/ rs_results
    \/ ss_summary
    \/ sql_again
SpecSql == InitSql /\ [][NextSql]_vars

-----------------------------------------------------------------------------
(* Point-based scoring: scripts/calculate_risk_scores_v2.py                 *)

\* Amounts of money are counted in units of $100,000, the largest unit all of
\* the script's thresholds are multiples of.
SizeOver10B  == 100000  \* row.raum > 10000000000
SizeOver1B   == 10000   \* row.raum > 1000000000
SizeOver100M == 1000    \* row.raum > 100000000
AvgOver10M   == 100     \* avg_client_size > 10000000
AvgOver1M    == 10      \* avg_client_size > 1000000
AvgOver100K  == 1       \* avg_client_size > 100000
DisciplinaryMax    == 25
DisciplinaryPoints == 10
CriticalPoints == 50
HighPoints     == 30
MediumPoints   == 15

\* Python's truth value of a fetched number: None and 0 are false
Truthy(m) == ~IsNull(m) /\ Get(m) # 0

\* row.raum / row.client_count > x, the quotient being a float
AvgGt(raum, clients, x) ==
    IF clients > 0 THEN raum > x * clients ELSE raum < x * clients

\* 1. Disciplinary Risk
DisciplinaryScoreNoCap(row) == Get(row.disciplinary_disclosures) * DisciplinaryPoints
DisciplinaryScore(row) ==
    Min2(DisciplinaryMax, Get(row.disciplinary_disclosures) * DisciplinaryPoints)
HasDisciplinary(row) ==
    Truthy(row.disciplinary_disclosures) /\ Get(row.disciplinary_disclosures) > 0
\* 2. Size Factor Risk
SizeScore(row) ==
    IF Get(row.raum) > SizeOver10B THEN 5
    ELSE IF Get(row.raum) > SizeOver1B THEN 10
    ELSE IF Get(row.raum) > SizeOver100M THEN 15
    ELSE 20
\* 3. Client Concentration Risk
ConcentrationScore(row) ==
    IF AvgGt(Get(row.raum), Get(row.client_count), AvgOver10M) THEN 15
    ELSE IF AvgGt(Get(row.raum), Get(row.client_count), AvgOver1M) THEN 10
    ELSE IF AvgGt(Get(row.raum), Get(row.client_count), AvgOver100K) THEN 5
    ELSE 0
HasConcentration(row) == Truthy(row.client_count) /\ Truthy(row.raum)

\* the factors dictionary: a key for each part that applied, and the three
\* parts that are always 0
PointFactors(row) ==
    (IF HasDisciplinary(row)
        THEN "disciplinary_risk" :> DisciplinaryScore(row) ELSE <<>>)
    @@ (IF Truthy(row.raum) THEN "size_factor_risk" :> SizeScore(row) ELSE <<>>)
    @@ (IF HasConcentration(row)
           THEN "client_concentration_risk" :> ConcentrationScore(row) ELSE <<>>)
    @@ ("filing_compliance_risk" :> 0)
    @@ ("cco_stability_risk" :> 0)
    @@ ("aum_volatility_risk" :> 0)

PointCategory(score) ==
    IF score >= CriticalPoints THEN "Critical"
    ELSE IF score >= HighPoints THEN "High"
    ELSE IF score >= MediumPoints THEN "Medium"
    ELSE "Low"

\* calculate_risk_score(row): <<score, risk_category, factors>>
calculate_risk_score(row) ==
    LET score ==
            (IF HasDisciplinary(row) THEN DisciplinaryScore(row) ELSE 0)
            + (IF Truthy(row.raum) THEN SizeScore(row) ELSE 0)
            + (IF HasConcentration(row) THEN ConcentrationScore(row) ELSE 0)
            + 0 + 0 + 0
    IN  <<score, PointCategory(score), PointFactors(row)>>

\* the collation order of the sec_numbers of the model
SecRank(sec) == IF Get(sec) = "801-1" THEN 1 ELSE 2

\* SELECT ... FROM ia_filing WHERE raum > 0
\* ORDER BY sec_number, filing_date DESC: the possible results, rows equal in
\* both sort columns in any order
Qualifying(t) == {i \in 1..Len(t) : SqlGt(t[i].raum, Some(0)) = "T"}
FetchOrders(t) ==
    {o \in Perms(Qualifying(t)) :
        \A a, b \in 1..Len(o) :
            a < b =>
              \/ SecRank(t[o[a]].sec_number) < SecRank(t[o[b]].sec_number)
              \/ /\ t[o[a]].sec_number = t[o[b]].sec_number
                 /\ t[o[a]].filing_date >= t[o[b]].filing_date}

ScoreRow(firm) ==
    LET res == calculate_risk_score(firm)
    IN  [sec_number |-> firm.sec_number, filing_date |-> firm.filing_date,
         score |-> res[1], risk_category |-> res[2], factors |-> res[3]]

\* main, run to its end: the scores are computed, ia_risk_score is truncated,
\* and the new scores are inserted and committed.  The commit is inside
\* `if risk_scores:`, so with no qualifying filing the TRUNCATE is never
\* committed and the connection's close rolls it back.
v2_main ==
    /\ pc = "point"
    /\ \E o \in FetchOrders(ia_filing) :
          /\ firms' = [k \in 1..Len(o) |-> ia_filing[o[k]]]
          /\ ia_risk_score' =
                IF o = <<>> THEN ia_risk_score
                ELSE [k \in 1..Len(o) |-> ScoreRow(ia_filing[o[k]])]
    /\ UNCHANGED <<ia_filing, txn, run, loadVars, changeVars, normVars, pc>>

\* main stopped by an exception (the query, the TRUNCATE or the INSERT
\* raising): nothing was committed, the except branch exits
v2_main_fails ==
    /\ pc = "point"
    /\ pc' = "failed"
    /\ UNCHANGED <<ia_filing, loadVars, changeVars, normVars, pointVars>>

-----------------------------------------------------------------------------
(* Scoring processes started beside a loader run: main of                   *)
(* scripts/calculate_risk_scores_v2.py, as far as it touches the database   *)

MaxScoring == 2
\* ORDER BY sec_number over the SEC numbers of the run's files
TextRank(sec) == IF Get(sec) = Sec1 THEN 1 ELSE 2
RECURSIVE RowsRanked(_, _)
RowsRanked(t, rank) ==
    IF t = <<>> THEN <<>>
    ELSE (IF SqlGt(Head(t).raum, Some(0)) = "T" /\ TextRank(Head(t).sec_number) = rank
          THEN <<Head(t)>> ELSE <<>>) \o RowsRanked(Tail(t), rank)
\* SELECT ... FROM ia_filing WHERE raum > 0 ORDER BY sec_number, filing_date
\* DESC; the filings of one firm in a run are of one date
PipelineFetch(t) == RowsRanked(t, 1) \o RowsRanked(t, 2)

\* main connects and executes its SELECT; nothing in it waits for a loader
score_fetch(p) ==
    /\ scoring[p].state = "new"
    /\ scoring' = [scoring EXCEPT ![p] =
                      [state |-> "scoring", firms |-> PipelineFetch(ia_filing)]]
    /\ UNCHANGED <<ia_filing, schema_applied, ia_columns, results, tasks, workers, s3read,
                   changeVars, normVars, pointVars, pc>>
\* main scores the rows it fetched, truncates ia_risk_score, inserts and
\* commits; with no rows the TRUNCATE is rolled back when the connection closes
score_commit(p) ==
    /\ scoring[p].state = "scoring"
    /\ ia_risk_score' =
          IF scoring[p].firms = <<>> THEN ia_risk_score
          ELSE [k \in 1..Len(scoring[p].firms) |-> ScoreRow(scoring[p].firms[k])]
    /\ scoring' = [scoring EXCEPT ![p].state = "done"]
    /\ UNCHANGED <<ia_filing, schema_applied, ia_columns, results, tasks, workers, s3read,
                   changeVars, normVars, firms, txn, run, pc>>
\* main stopped by an exception: nothing is committed
score_fails(p) ==
    /\ scoring[p].state = "scoring"
    /\ scoring' = [scoring EXCEPT ![p].state = "failed"]
    /\ UNCHANGED <<ia_filing, schema_applied, ia_columns, results, tasks, workers, s3read,
                   changeVars, normVars, pointVars, pc>>

PipelineTasks ==
    {Task(File(Name6, AllHeaders, <<RowA>>), TRUE),
     Task(File(Name8, AllHeaders, <<RowD>>), TRUE)}
InitPipeline ==
    /\ schema_applied \in BOOLEAN
    /\ ia_filing = <<>>
    /\ ia_columns = IF schema_applied THEN SchemaColumns ELSE {}
    /\ results = <<>>
    /\ tasks \in {ts \in UNION {TaskLists(n) : n \in 1..MaxTasks} :
                    \A i \in 1..Len(ts) : ts[i] \in PipelineTasks}
    /\ workers \in {1, 2}
    /\ scoring = [p \in 1..MaxScoring |-> [state |-> "new", firms |-> <<>>]]
    /\ s3read = <<>>
    /\ IdleChange /\ IdleNorm /\ IdlePoint
    /\ pc = "run"
NextPipeline ==
    \/ \E i \in 1..MaxTasks :
          \/ pool_submit(i)
          \/ process_task(i)
          \/ to_sql_begin(i)
          \/ to_sql_commit(i)
    \/ main_done
    \/ \E p \in 1..MaxScoring :
          \/ score_fetch(p)
          \/ score_commit(p)
          \/ score_fails(p)
SpecPipeline == InitPipeline /\ [][NextPipeline]_vars


\* ---- the filings and the scores a run starts from ----
MaxPointRows == 2       \* rows of ia_filing in a point-based run

PointRaumVals == {NULL, Some(0), Some(1000), Some(1001), Some(10000),
                  Some(10001), Some(100000), Some(100001)}
PointClientVals == {NULL, Some(0), Some(1), Some(10), Some(100), Some(1000)}
PointDiscVals == {NULL, Some(0), Some(1), Some(2), Some(3)}
PointFiling(sec, date, raum, clients, disc) ==
    [sec_number |-> sec, filing_date |-> date, raum |-> raum,
     client_count |-> clients, disciplinary_disclosures |-> disc]
\* the first row takes every combination of the scored columns, the further
\* rows (a later filing of the same firm, or another firm) a few
FirstPointRows ==
    {PointFiling(Some("801-1"), FilingDates[1], r, c, d) :
        r \in PointRaumVals, c \in PointClientVals, d \in PointDiscVals}
MorePointRows(i) ==
    {PointFiling(s, FilingDates[i], r, Some(10), d) :
        s \in {Some("801-1"), Some("801-2")}, r \in {NULL, Some(1001)},
        d \in {Some(0), Some(3)}}
RECURSIVE PointTablesOf(_)
PointTablesOf(n) ==
    IF n = 1 THEN {<<f>> : f \in FirstPointRows}
    ELSE {Append(t, f) : t \in PointTablesOf(n - 1), f \in MorePointRows(n)}
PointTables == UNION {PointTablesOf(n) : n \in 1..MaxPointRows}
\* a score left by an earlier run
StaleScore ==
    [sec_number |-> Some("801-2"), filing_date |-> FilingDates[1], score |-> 20,
     risk_category |-> "Medium",
     factors |-> ("size_factor_risk" :> 20) @@ ("filing_compliance_risk" :> 0)
                 @@ ("cco_stability_risk" :> 0) @@ ("aum_volatility_risk" :> 0)]

InitPoint ==
    /\ ia_filing \in PointTables
    /\ ia_risk_score \in {<<>>, <<StaleScore>>}
    /\ firms = <<>>
    /\ txn = <<>>
    /\ run = <<>>
    /\ IdleLoad /\ IdleChange /\ IdleNorm
    /\ pc = "point"

NextPoint == v2_main \/ v2_main_fails

SpecPoint == InitPoint /\ [][NextPoint]_vars

-----------------------------------------------------------------------------
(* The point-based run statement by statement, inside the transaction its   *)
(* connection opens, and run again after it has ended                       *)

MaxRuns == 2
\* TRUNCATE TABLE ia_risk_score on the connection of `with engine.connect()`:
\* the statement opens a transaction, so the committed table keeps its rows
\* until conn.commit()
TruncatedAutocommit(committed) == <<>>
Truncated(committed) == committed

\* the SELECT of main and fetchall
v2_select ==
    /\ pc = "select"
    /\ \E o \in FetchOrders(ia_filing) :
          firms' = [k \in 1..Len(o) |-> ia_filing[o[k]]]
    /\ pc' = "truncate"
    /\ UNCHANGED <<ia_filing, ia_risk_score, txn, run, loadVars, changeVars, normVars>>
\* the scores are calculated and TRUNCATE is executed
v2_truncate ==
    /\ pc = "truncate"
    /\ ia_risk_score' = Truncated(ia_risk_score)
    /\ txn' = Some(<<>>)
    /\ pc' = "insert"
    /\ UNCHANGED <<ia_filing, firms, run, loadVars, changeVars, normVars>>
\* `if risk_scores:` the INSERT is executed, else main goes on to its summary
v2_insert ==
    /\ pc = "insert"
    /\ IF firms = <<>>
       THEN pc' = "summary" /\ txn' = txn
       ELSE /\ txn' = Some([k \in 1..Len(firms) |-> ScoreRow(firms[k])])
            /\ pc' = "commit"
    /\ UNCHANGED <<ia_filing, firms, ia_risk_score, run, loadVars, changeVars, normVars>>
v2_commit ==
    /\ pc = "commit"
    /\ ia_risk_score' = Get(txn)
    /\ txn' = NULL
    /\ pc' = "summary"
    /\ UNCHANGED <<ia_filing, firms, run, loadVars, changeVars, normVars>>
\* the summary queries are printed and the connection is closed, which rolls
\* back what was not committed
v2_summary ==
    /\ pc = "summary"
    /\ txn' = NULL
    /\ pc' = "done"
    /\ UNCHANGED <<ia_filing, firms, ia_risk_score, run, loadVars, changeVars, normVars>>
\* a statement raises: the connection is closed and the except branch exits;
\* pc keeps the statement that raised
FailedAt(step) ==
    CASE step = "select" -> "failed select"
      [] step = "truncate" -> "failed truncate"
      [] step = "insert" -> "failed insert"
      [] step = "commit" -> "failed commit"
      [] step = "summary" -> "failed summary"
v2_except ==
    /\ pc \in {"select", "truncate", "insert", "commit", "summary"}
    /\ txn' = NULL
    /\ pc' = FailedAt(pc)
    /\ UNCHANGED <<ia_filing, firms, ia_risk_score, run, loadVars, changeVars, normVars>>
\* the script is started again; run keeps what each ended run found and left
v2_again ==
    /\ pc \in {"done"} \cup {FailedAt(step) : step \in {"select", "truncate", "insert",
                                                       "commit", "summary"}}
    /\ Len(run) < MaxRuns
    /\ run' = Append(run, [outcome |-> pc, store |-> ia_risk_score])
    /\ firms' = <<>>
    /\ pc' = "select"
    /\ UNCHANGED <<ia_filing, ia_risk_score, txn, loadVars, changeVars, normVars>>

TxnFirstRows ==
    {PointFiling(Some("801-1"), FilingDates[1], r, Some(10), d) :
        r \in {NULL, Some(0), Some(1001)}, d \in {Some(0), Some(3)}}
RECURSIVE TxnTablesOf(_)
TxnTablesOf(n) ==
    IF n = 1 THEN {<<f>> : f \in TxnFirstRows}
    ELSE {Append(t, f) : t \in TxnTablesOf(n - 1), f \in MorePointRows(n)}
TxnTables == UNION {TxnTablesOf(n) : n \in 1..MaxPointRows}

\* run starts with the store as the first run finds it
InitPointTxn ==
    /\ ia_filing \in TxnTables
    /\ ia_risk_score \in {<<>>, <<StaleScore>>}
    /\ firms = <<>>
    /\ txn = NULL
    /\ run = <<[outcome |-> "none", store |-> ia_risk_score]>>
    /\ IdleLoad /\ IdleChange /\ IdleNorm
    /\ pc = "select"
NextPointTxn ==
    \/ v2_select
    \/ v2_truncate
    \/ v2_insert
    \/ v2_commit
    \/ v2_summary
    \/ v2_except
    \/ v2_again
SpecPointTxn == InitPointTxn /\ [][NextPointTxn]_vars


-----------------------------------------------------------------------------
(* Normalized scoring: scripts/calculate_risk_scores.py                     *)

\* Scores and weights are fixed-point numbers, in thousandths.  A Series is a
\* function from its index labels to its values, which are floats: Some(v),
\* or NaN.
One == 1000
Mul(a, b) == (a * b) \div One

RISK_WEIGHTS ==
    [disclosure_history |-> 350, aum_volatility |-> 200,
     client_concentration |-> 150, filing_compliance |-> 150,
     cco_stability |-> 100, size_factor |-> 50]
\* RISK_WEIGHTS.items(), in the dictionary's order
WeightItems ==
    <<"disclosure_history", "aum_volatility", "client_concentration",
      "filing_compliance", "cco_stability", "size_factor">>
RISK_THRESHOLDS == [low |-> 0, medium |-> 300, high |-> 600, critical |-> 800]

\* the labels of an index, in ascending order
RECURSIVE Ascending(_)
Ascending(S) ==
    IF S = {} THEN <<>> ELSE <<SetMin(S)>> \o Ascending(S \ {SetMin(S)})
\* Series.get(label, 0)
SeriesGet(series, label) ==
    IF label \in DOMAIN series THEN series[label] ELSE Some(0)
\* series * weight
Scale(series, weight) ==
    [i \in DOMAIN series |->
        IF series[i] = NaN THEN NaN ELSE Some(Mul(Get(series[i]), weight))]
\* overall_score += series: aligned on the union of the two indexes, NaN where
\* either side has no value
SeriesAdd(acc, series) ==
    [i \in DOMAIN acc \cup DOMAIN series |->
        IF i \in DOMAIN acc /\ i \in DOMAIN series
              /\ acc[i] # NaN /\ series[i] # NaN
            THEN Some(Get(acc[i]) + Get(series[i]))
            ELSE NaN]
\* Series.clip(0, 1)
Clip01(series) ==
    [i \in DOMAIN series |->
        IF series[i] = NaN THEN NaN
        ELSE Some(Max2(0, Min2(One, Get(series[i]))))]

\* the loop of calculate_overall_risk_score over items, a suffix of the
\* weights
RECURSIVE AddWeighted(_, _, _)
AddWeighted(risk_components, overall_score, items) ==
    IF items = <<>> THEN overall_score
    ELSE LET component == Head(items)
             weight == RISK_WEIGHTS[component]
         IN  AddWeighted(risk_components,
                 IF component \in DOMAIN risk_components
                     THEN SeriesAdd(overall_score,
                                    Scale(risk_components[component], weight))
                     ELSE overall_score,
                 Tail(items))

calculate_overall_risk_score(risk_components) ==
    LET overall_score ==
            [i \in DOMAIN risk_components["disclosure_risk"] |-> Some(0)]
    IN  Clip01(AddWeighted(risk_components, overall_score, WeightItems))

\* categorize_risk(score); every comparison with NaN is false
categorize_riskStrict(score) ==
    IF score # NaN /\ Get(score) > RISK_THRESHOLDS.critical THEN "Critical"
    ELSE IF score # NaN /\ Get(score) > RISK_THRESHOLDS.high THEN "High"
    ELSE IF score # NaN /\ Get(score) > RISK_THRESHOLDS.medium THEN "Medium"
    ELSE "Low"
categorize_risk(score) ==
    IF score # NaN /\ Get(score) >= RISK_THRESHOLDS.critical THEN "Critical"
    ELSE IF score # NaN /\ Get(score) >= RISK_THRESHOLDS.high THEN "High"
    ELSE IF score # NaN /\ Get(score) >= RISK_THRESHOLDS.medium THEN "Medium"
    ELSE "Low"

\* ---- the factor series, computed from the frame frm ----
\* the labels of the frame are 0..n-1, in the order of the query
LabelOf(i) == i - 1
CrdsOf(frm) == {Get(frm[i].crd) : i \in {j \in 1..Len(frm) : ~IsNull(frm[j].crd)}}
\* frm[columns].dropna(): the positions of the rows with all columns present
Complete(frm, columns) ==
    {i \in 1..Len(frm) : \A c \in columns : ~IsNull(frm[i][c])}
\* the positions among rows of the firm's rows, sorted by filing_date
FirmSorted(frm, rows, crd) ==
    {o \in Perms({i \in rows : frm[i].crd = Some(crd)}) :
        \A a, b \in 1..Len(o) :
            a < b => Get(frm[o[a]].filing_date) <= Get(frm[o[b]].filing_date)}

\* (firm_cco['cco_id'] != firm_cco['cco_id'].shift()).sum(): shift() puts NaN
\* before the first row, and NaN differs from every value
CcoChanges(frm, o) ==
    Cardinality({k \in 1..Len(o) :
                    k = 1 \/ frm[o[k]].cco_id # frm[o[k - 1]].cco_id})
StabilityRisk(frm, o) ==
    IF Len(o) < 2 THEN Some(0)
    ELSE Some(Min2((CcoChanges(frm, o) * One) \div 5, One))
\* calculate_cco_stability_risk: the possible series, one per order of the
\* rows that are equal in filing_date
calculate_cco_stability_risk(frm) ==
    LET cco_data == Complete(frm, {"crd", "filing_date", "cco_id"})
        crds == {Get(frm[i].crd) : i \in cco_data}
        risks(crd) == {StabilityRisk(frm, o) : o \in FirmSorted(frm, cco_data, crd)}
    IN  {series \in [crds -> UNION {risks(crd) : crd \in crds}] :
            \A crd \in crds : series[crd] \in risks(crd)}

\* Four more factors are computed with logarithms, quantiles and tanh.  Their
\* values are represented by a level in [0, 1] chosen for the whole series;
\* their indexes are the ones the code builds.
FactorLevels == {0, One}
\* groupby('crd')...reset_index(): a RangeIndex over the firms
GroupIndex(frm) == {LabelOf(k) : k \in 1..Cardinality(CrdsOf(frm))}
calculate_disclosure_risk(frm, level) == [i \in GroupIndex(frm) |-> Some(level)]
calculate_filing_compliance_risk(frm, level) ==
    [i \in GroupIndex(frm) |-> Some(level)]

\* ---- calculate_aum_volatility_risk ----
\* firm_aum['raum'].pct_change() over the firm's rows o, in order: the k-th
\* change is (raum[k] - raum[k-1]) / raum[k-1].  It is NaN for 0/0 and
\* infinite for x/0; the first row has no change (NaN).
ChangeIsNaN(frm, o, k) ==
    Get(frm[o[k - 1]].raum) = 0 /\ Get(frm[o[k]].raum) = 0
ChangeIsInf(frm, o, k) ==
    Get(frm[o[k - 1]].raum) = 0 /\ Get(frm[o[k]].raum) # 0
\* the positions whose change is a number or infinite: std() skips NaN
Changes(frm, o) == {k \in 2..Len(o) : ~ChangeIsNaN(frm, o, k)}
\* the finite changes as fractions with the common denominator ChangeDen
RECURSIVE Product(_, _)
Product(f, S) ==
    IF S = {} THEN 1
    ELSE LET x == CHOOSE y \in S : TRUE IN f[x] * Product(f, S \ {x})
ChangeDen(frm, o) ==
    Product([k \in Changes(frm, o) |-> Get(frm[o[k - 1]].raum)], Changes(frm, o))
ChangeNum(frm, o, k) ==
    (Get(frm[o[k]].raum) - Get(frm[o[k - 1]].raum))
        * (ChangeDen(frm, o) \div Get(frm[o[k - 1]].raum))
RECURSIVE Sum(_, _)
Sum(f, S) ==
    IF S = {} THEN 0
    ELSE LET x == CHOOSE y \in S : TRUE IN f[x] + Sum(f, S \ {x})
\* Series.std() (ddof=1) of the changes, as variance = VarNum / VarDen:
\* m * sum(c^2) - sum(c)^2 over m * (m - 1) * den^2
VarNum(frm, o) ==
    LET cs == Changes(frm, o)
        n == [k \in cs |-> ChangeNum(frm, o, k)]
    IN  Cardinality(cs) * Sum([k \in cs |-> n[k] * n[k]], cs)
            - Sum(n, cs) * Sum(n, cs)
VarDen(frm, o) ==
    LET m == Cardinality(Changes(frm, o))
    IN  m * (m - 1) * ChangeDen(frm, o) * ChangeDen(frm, o)
\* min(volatility * 10, 1.0), rounded down to a multiple of 1 / VolGrid.
\* std() of fewer than two numbers, or of anything infinite, is NaN, and
\* min(NaN, 1.0) is NaN.
VolGrid == 20
NormalizedVolatility(frm, o) ==
    IF Cardinality(Changes(frm, o)) < 2
       \/ \E k \in Changes(frm, o) : ChangeIsInf(frm, o, k)
    THEN NaN
    ELSE IF VarNum(frm, o) = 0 THEN Some(0)
    ELSE LET steps == {g \in 0..VolGrid :
                          g * g * VarDen(frm, o)
                             <= 100 * VolGrid * VolGrid * VarNum(frm, o)}
         IN  Some((One * (Cardinality(steps) - 1)) \div VolGrid)
\* indexed by crd; a firm with less than two rows with raum has 0.0
calculate_aum_volatility_risk(frm) ==
    LET aum_data == Complete(frm, {"crd", "filing_date", "raum"})
        crds == {Get(frm[i].crd) : i \in aum_data}
        risks(crd) ==
            {IF Len(o) < 2 THEN Some(0) ELSE NormalizedVolatility(frm, o) :
                o \in FirmSorted(frm, aum_data, crd)}
    IN  {series \in [crds -> UNION {risks(crd) : crd \in crds}] :
            \A crd \in crds : series[crd] \in risks(crd)}
\* indexed by the labels of the rows that have both counts
calculate_client_concentration_risk(frm, level) ==
    [l \in {LabelOf(i) :
              i \in Complete(frm, {"crd", "total_clients", "total_accounts"})}
        |-> Some(level)]
\* sort_values('filing_date').groupby('crd').tail(1): one row of each firm, the
\* last of its rows once sorted by filing_date; of the rows equal in
\* filing_date any one may come last
LatestOf(frm, crd) ==
    {j \in 1..Len(frm) :
        /\ frm[j].crd = Some(crd)
        /\ \A k \in 1..Len(frm) :
              frm[k].crd = frm[j].crd
                 => Get(frm[k].filing_date) <= Get(frm[j].filing_date)}
latest_data(frm) ==
    {g \in [CrdsOf(frm) -> 1..Len(frm)] :
        \A crd \in CrdsOf(frm) : g[crd] \in LatestOf(frm, crd)}
\* the possible series, indexed by the label of the row kept for each firm
calculate_size_factor_risk(frm, level) ==
    {[l \in {LabelOf(g[crd]) : crd \in CrdsOf(frm)} |-> Some(level)] :
        g \in latest_data(frm)}
\* latest_data['raum'].fillna(0), by firm: the value the size risk is made of
aum_values(frm) ==
    {[crd \in CrdsOf(frm) |->
         IF IsNull(frm[g[crd]].raum) THEN 0 ELSE Get(frm[g[crd]].raum)] :
        g \in latest_data(frm)}

\* ---- main of calculate_risk_scores.py, step by step ----
\* SELECT ... FROM ia_filing ORDER BY filing_date: the possible frames
ReadSql(t) ==
    {[k \in 1..Len(o) |-> t[o[k]]] :
        o \in {q \in Perms(1..Len(t)) :
                 \A a, b \in 1..Len(q) :
                     a < b => Get(t[q[a]].filing_date)
                                 <= Get(t[q[b]].filing_date)}}

\* create_risk_scores_table: CREATE TABLE IF NOT EXISTS risk_scores, committed
create_risk_scores_table(tbls) == tbls \cup {"risk_scores"}
\* the table risk_scores is created if it does not exist, and the frame is
\* read; with no rows main exits with status 1
norm_read ==
    /\ pc = "norm"
    /\ tables' = create_risk_scores_table(tables)
    /\ \E frm \in ReadSql(ia_filing) :
          /\ score_df' = frm
          /\ pc' = IF frm = <<>> THEN "exit1" ELSE "factors"
    /\ UNCHANGED <<ia_filing, components, overall, results_df, risk_scores, args,
                   response, loadVars, changeVars, pointVars>>

\* the six factors are calculated and combined into risk_components
norm_factors ==
    /\ pc = "factors"
    /\ \E disclosure, client, filing, size \in FactorLevels :
       \E cco \in calculate_cco_stability_risk(score_df) :
       \E aum \in calculate_aum_volatility_risk(score_df) :
       \E size_risk \in calculate_size_factor_risk(score_df, size) :
          components' =
              [disclosure_risk |-> calculate_disclosure_risk(score_df, disclosure),
               aum_volatility_risk |-> aum,
               client_concentration_risk |->
                   calculate_client_concentration_risk(score_df, client),
               filing_compliance_risk |->
                   calculate_filing_compliance_risk(score_df, filing),
               cco_stability_risk |-> cco,
               size_factor_risk |-> size_risk]
    /\ pc' = "overall"
    /\ UNCHANGED <<ia_filing, overall, results_df, score_df, risk_scores, args,
                   tables, response, loadVars, changeVars, pointVars>>

norm_overall ==
    /\ pc = "overall"
    /\ overall' = calculate_overall_risk_score(components)
    /\ pc' = "results"
    /\ UNCHANGED <<ia_filing, components, results_df, score_df, risk_scores, args,
                   tables, response, loadVars, changeVars, pointVars>>

\* one result per label of overall_risk_scores.index; the label is stored as
\* crd (risk_factors and the timestamps are left out of the rows)
ResultRow(crd) ==
    [crd |-> crd,
     overall_risk_score |-> overall[crd],
     risk_category |-> categorize_risk(overall[crd]),
     disclosure_risk |-> SeriesGet(components.disclosure_risk, crd),
     aum_volatility_risk |-> SeriesGet(components.aum_volatility_risk, crd),
     client_concentration_risk |->
         SeriesGet(components.client_concentration_risk, crd),
     filing_compliance_risk |-> SeriesGet(components.filing_compliance_risk, crd),
     cco_stability_risk |-> SeriesGet(components.cco_stability_risk, crd),
     size_factor_risk |-> SeriesGet(components.size_factor_risk, crd)]
norm_results ==
    /\ pc = "results"
    /\ results_df' = [k \in 1..Cardinality(DOMAIN overall) |->
                         ResultRow(Ascending(DOMAIN overall)[k])]
    /\ pc' = "save"
    /\ UNCHANGED <<ia_filing, components, overall, score_df, risk_scores, args,
                   tables, response, loadVars, changeVars, pointVars>>

\* --dry-run returns; --update-existing upserts on crd; otherwise the rows are
\* appended, and a crd that the table already holds violates its primary key:
\* the exception ends the run with nothing inserted
ResultCrds == {results_df[k].crd : k \in 1..Len(results_df)}
ResultFor(crd) == results_df[CHOOSE k \in 1..Len(results_df) : results_df[k].crd = crd]
Upserted ==
    [crd \in DOMAIN risk_scores \cup ResultCrds |->
        IF crd \in ResultCrds THEN ResultFor(crd) ELSE risk_scores[crd]]
norm_save ==
    /\ pc = "save"
    /\ IF args.dry_run
          THEN pc' = "done" /\ UNCHANGED risk_scores
       ELSE IF args.update_existing
          THEN pc' = "done" /\ risk_scores' = Upserted
       ELSE IF DOMAIN risk_scores \cap ResultCrds # {}
          THEN pc' = "crashed" /\ UNCHANGED risk_scores
       ELSE pc' = "done" /\ risk_scores' = Upserted
    /\ UNCHANGED <<ia_filing, components, overall, results_df, score_df, args,
                   tables, response, loadVars, changeVars, pointVars>>

\* ---- the filings and the scores a normalized run starts from ----
MaxDfRows == 3          \* rows of ia_filing in a normalized run

NormFiling(crd, date, cco) ==
    [crd |-> Some(crd), filing_date |-> Some(date), raum |-> Some(100),
     total_clients |-> Some(10), total_accounts |-> Some(12),
     cco_id |-> cco, disclosure_flag |-> "N"]
NormRows(i) ==
    IF i <= 2
        THEN {NormFiling(c, FilingDates[i], o) :
                 c \in {101, 102}, o \in {NULL, Some(7), Some(8)}}
        ELSE {NormFiling(101, FilingDates[i], o) : o \in {Some(7), Some(8)}}
RECURSIVE NormTablesOf(_)
NormTablesOf(n) ==
    IF n = 0 THEN {<<>>}
    ELSE {Append(t, f) : t \in NormTablesOf(n - 1), f \in NormRows(n)}
NormTables == UNION {NormTablesOf(n) : n \in 0..MaxDfRows}
\* a record left by an earlier run
StaleRisk(crd) ==
    [crd |-> crd, overall_risk_score |-> Some(0), risk_category |-> "Low",
     disclosure_risk |-> Some(One), aum_volatility_risk |-> Some(0),
     client_concentration_risk |-> Some(0), filing_compliance_risk |-> Some(0),
     cco_stability_risk |-> Some(0), size_factor_risk |-> Some(0)]

InitNorm ==
    /\ ia_filing \in NormTables
    /\ args \in [dry_run : BOOLEAN, update_existing : BOOLEAN]
    /\ risk_scores \in {<<>>} \cup {[c \in {crd} |-> StaleRisk(c)] : crd \in {0, 101}}
    /\ tables \in {{"ia_filing"} \cup t : t \in {{}, {"risk_scores"}}}
    /\ risk_scores # <<>> => "risk_scores" \in tables
    /\ response = <<>>
    /\ components = <<>>
    /\ overall = <<>>
    /\ results_df = <<>>
    /\ score_df = <<>>
    /\ IdleLoad /\ IdleChange /\ IdlePoint
    /\ pc = "norm"

NextNorm == norm_read \/ norm_factors \/ norm_overall \/ norm_results \/ norm_save

SpecNorm == InitNorm /\ [][NextNorm]_vars

\* ---- the normalized run started again after it has ended ----
norm_again ==
    /\ pc \in {"done", "crashed", "exit1"}
    /\ Len(run) < MaxRuns
    /\ run' = Append(run, [outcome |-> pc, store |-> risk_scores])
    /\ components' = <<>>
    /\ overall' = <<>>
    /\ results_df' = <<>>
    /\ score_df' = <<>>
    /\ pc' = "norm"
    /\ UNCHANGED <<ia_filing, risk_scores, tables, args, firms, ia_risk_score, txn,
                   response, loadVars, changeVars>>
InitNormTwice ==
    /\ ia_filing \in {t \in NormTables : Len(t) <= 2}
    /\ args \in [dry_run : BOOLEAN, update_existing : BOOLEAN]
    /\ risk_scores = <<>>
    /\ tables = {"ia_filing"}
    /\ response = <<>>
    /\ components = <<>>
    /\ overall = <<>>
    /\ results_df = <<>>
    /\ score_df = <<>>
    /\ IdleLoad /\ IdleChange
    /\ firms = <<>> /\ ia_risk_score = <<>> /\ txn = NULL
    /\ run = <<[outcome |-> "none", store |-> risk_scores]>>
    /\ pc = "norm"
NextNormTwice ==
    \/ norm_read
    \/ norm_factors
    \/ norm_overall
    \/ norm_results
    \/ norm_save
    \/ norm_again
SpecNormTwice == InitNormTwice /\ [][NextNormTwice]_vars


\* ---- categorize_risk over the scores, applied by main's result loop ----
MaxScoreIn == 1200      \* the largest score handed to categorize_risk

BoundaryScores == {NaN, Some(0), Some(299), Some(300), Some(599), Some(600),
                   Some(799), Some(800), Some(One)}
NoSeries == [i \in {} |-> Some(0)]
InitCategorize ==
    /\ overall \in {[i \in {0, 1} |-> IF i = 0 THEN Some(a) ELSE b] :
                       a \in 0..MaxScoreIn, b \in BoundaryScores}
    /\ components = [disclosure_risk |-> NoSeries, aum_volatility_risk |-> NoSeries,
                     client_concentration_risk |-> NoSeries,
                     filing_compliance_risk |-> NoSeries,
                     cco_stability_risk |-> NoSeries, size_factor_risk |-> NoSeries]
    /\ ia_filing = <<>>
    /\ args = [dry_run |-> TRUE, update_existing |-> FALSE]
    /\ response = <<>>
    /\ risk_scores = <<>>
    /\ tables = {"ia_filing", "risk_scores"}
    /\ results_df = <<>>
    /\ score_df = <<>>
    /\ IdleLoad /\ IdleChange /\ IdlePoint
    /\ pc = "results"

NextCategorize == norm_results \/ norm_save

SpecCategorize == InitCategorize /\ [][NextCategorize]_vars

\* ---- calculate_aum_volatility_risk over asset histories, applied by main ----
MaxAumRows == 3         \* rows of the frame in a volatility run

AumFiling(crd, date, raum) ==
    [crd |-> Some(crd), filing_date |-> Some(date), raum |-> raum,
     total_clients |-> Some(10), total_accounts |-> Some(12),
     cco_id |-> Some(7), disclosure_flag |-> "N"]
\* the first rows take every asset value, of two firms; later rows a rise or
\* a fall of the first firm's assets
AumRows(i) ==
    IF i <= 3
        THEN {AumFiling(c, FilingDates[i], r) :
                 c \in {101, 102}, r \in {NULL, Some(0), Some(2), Some(3)}}
        ELSE {AumFiling(101, FilingDates[i], r) : r \in {Some(2), Some(3)}}
RECURSIVE AumFramesOf(_)
AumFramesOf(n) ==
    IF n = 0 THEN {<<>>}
    ELSE {Append(t, f) : t \in AumFramesOf(n - 1), f \in AumRows(n)}
AumFrames == UNION {AumFramesOf(n) : n \in 1..MaxAumRows}

InitVolatility ==
    /\ score_df \in AumFrames
    /\ ia_filing = score_df
    /\ args = [dry_run |-> TRUE, update_existing |-> FALSE]
    /\ response = <<>>
    /\ risk_scores = <<>>
    /\ tables = {"ia_filing", "risk_scores"}
    /\ components = <<>>
    /\ overall = <<>>
    /\ results_df = <<>>
    /\ IdleLoad /\ IdleChange /\ IdlePoint
    /\ pc = "factors"

NextVolatility == norm_factors \/ norm_overall

SpecVolatility == InitVolatility /\ [][NextVolatility]_vars

-----------------------------------------------------------------------------
(* The latest filing of a firm: the queries of api/app.py and the selection *)
(* of calculate_size_factor_risk, each over a table where a firm may have   *)
(* several filings for one date                                             *)

MaxCalls == 2           \* selections made over one table
page_size == 20          \* the default of get_firms
\* FirmData of one joined row: `float(row.aum) if row.aum else None`; the
\* LEFT JOIN gives the firm's risk_scores row, or NULLs
FirmData(f, scores) ==
    [crd |-> f.crd,
     aum |-> IF Truthy(f.raum) THEN f.raum ELSE NULL,
     total_clients |-> f.total_clients,
     total_accounts |-> f.total_accounts,
     last_filing_date |-> f.filing_date,
     risk_score |->
         IF /\ ~IsNull(f.crd)
            /\ Get(f.crd) \in DOMAIN scores
            /\ ~IsNull(scores[Get(f.crd)].overall_risk_score)
             THEN Some(scores[Get(f.crd)])
             ELSE NULL]
\* WHERE f.filing_date = (SELECT MAX(filing_date) FROM ia_filing WHERE crd = f.crd)
base_query(t) ==
    {i \in 1..Len(t) : \E crd \in CrdsOf(t) : i \in LatestOf(t, crd)}
\* ORDER BY crd ASC LIMIT :limit OFFSET 0: the possible results, one per order
\* of the rows equal in crd
firms_query(t) ==
    {SubSeq(o, 1, Min2(Len(o), page_size)) :
        o \in {q \in Perms(base_query(t)) :
                 \A a, b \in 1..Len(q) :
                     a < b => Get(t[q[a]].crd) <= Get(t[q[b]].crd)}}
\* GET /api/firms with its default parameters
get_firms ==
    /\ pc = "api"
    /\ Len(response) < MaxCalls
    /\ \E o \in firms_query(ia_filing) :
          response' =
              Append(response,
                     [call |-> "get_firms", crd |-> 0, status |-> 200,
                      total |-> Cardinality(base_query(ia_filing)),
                      data |-> [k \in 1..Len(o) |->
                                   FirmData(ia_filing[o[k]], risk_scores)]])
    /\ UNCHANGED <<pc, ia_filing, components, overall, results_df, score_df,
                   risk_scores, tables, args, loadVars, changeVars, pointVars>>
\* WHERE f.crd = :crd ORDER BY f.filing_date DESC LIMIT 1: the possible rows
detail_query(t, crd) == LatestOf(t, crd)
\* GET /api/firms/{crd}: 404 when the query has no row
get_firm_detail(crd) ==
    /\ pc = "api"
    /\ Len(response) < MaxCalls
    /\ \/ /\ detail_query(ia_filing, crd) = {}
          /\ response' =
                 Append(response,
                        [call |-> "get_firm_detail", crd |-> crd, status |-> 404,
                         total |-> 0, data |-> <<>>])
       \/ \E i \in detail_query(ia_filing, crd) :
             response' =
                 Append(response,
                        [call |-> "get_firm_detail", crd |-> crd, status |-> 200,
                         total |-> 1,
                         data |-> <<FirmData(ia_filing[i], risk_scores)>>])
    /\ UNCHANGED <<pc, ia_filing, components, overall, results_df, score_df,
                   risk_scores, tables, args, loadVars, changeVars, pointVars>>
\* the frame main reads, and the assets calculate_size_factor_risk keeps of
\* it for each firm
size_latest ==
    /\ pc = "api"
    /\ Len(response) < MaxCalls
    /\ \E frm \in ReadSql(ia_filing) :
       \E aum \in aum_values(frm) :
          response' =
              Append(response,
                     [call |-> "calculate_size_factor_risk", crd |-> 0,
                      status |-> 0, total |-> Cardinality(DOMAIN aum),
                      data |-> aum])
    /\ UNCHANGED <<pc, ia_filing, components, overall, results_df, score_df,
                   risk_scores, tables, args, loadVars, changeVars, pointVars>>

\* ---- the filings the selections run over ----
MaxLatestRows == 3      \* rows of ia_filing under the selections
LatestCrds == {101, 102}
LatestFiling(crd, date, raum) ==
    [crd |-> Some(crd), filing_date |-> Some(date), raum |-> raum,
     total_clients |-> Some(10), total_accounts |-> Some(12),
     cco_id |-> NULL, disclosure_flag |-> "N"]
LatestRows(i) ==
    IF i <= 3
        THEN {LatestFiling(crd, FilingDates[d], raum) :
                 crd \in LatestCrds, d \in 1..2, raum \in {Some(100), Some(200)}}
        ELSE {LatestFiling(101, FilingDates[1], Some(100))}
RECURSIVE LatestTablesOf(_)
LatestTablesOf(n) ==
    IF n = 0 THEN {<<>>}
    ELSE {Append(t, f) : t \in LatestTablesOf(n - 1), f \in LatestRows(n)}
LatestTables == UNION {LatestTablesOf(n) : n \in 0..MaxLatestRows}

InitLatest ==
    /\ ia_filing \in LatestTables
    /\ risk_scores \in {<<>>, [c \in {101} |-> StaleRisk(c)]}
    /\ tables = {"ia_filing", "risk_scores"}
    /\ args \in [dry_run : {FALSE}, update_existing : {FALSE}]
    /\ response = <<>>
    /\ components = <<>>
    /\ overall = <<>>
    /\ results_df = <<>>
    /\ score_df = <<>>
    /\ IdleLoad /\ IdleChange /\ IdlePoint
    /\ pc = "api"

NextLatest ==
    \/ get_firms
    \/ \E crd \in LatestCrds : get_firm_detail(crd)
    \/ size_latest

SpecLatest == InitLatest /\ [][NextLatest]_vars

-----------------------------------------------------------------------------
(* Fetch and unzip: scripts/fetch_iapd_data.py and scripts/unzip_iapd_zips.py. *)
(* A file of either directory is absent, partial (created, not all of its     *)
(* bytes written) or complete.                                                *)

MaxZips == 2            \* archives listed on the page, each with one member
MaxDiskRuns == 3        \* runs of the two programs, one after another

Present(files) == {i \in 1..Len(files) : files[i] # "absent"}
\* the run goes on with the rest of its list, or has ended
Advance(d) ==
    [d EXCEPT !.todo = Tail(@), !.prog = IF Len(d.todo) = 1 THEN "idle" ELSE d.prog]
Skipped(d, dir, i, state) ==
    [d EXCEPT !.skips = @ \cup {[dir |-> dir, file |-> i, state |-> state]}]

\* main of fetch_iapd_data up to its loop: it returns when the interval has
\* not passed (never so while the directory has no archive) and exits when
\* the listing cannot be read
fetch_main ==
    /\ pc = "disk"
    /\ disk.prog = "idle"
    /\ disk.runs < MaxDiskRuns
    /\ \E goes \in BOOLEAN :
          disk' = IF goes
                      THEN [disk EXCEPT !.prog = "fetch", !.runs = @ + 1,
                                        !.todo = [i \in 1..MaxZips |-> i]]
                      ELSE [disk EXCEPT !.runs = @ + 1]
    /\ UNCHANGED <<ia_filing, ia_change, sql, years, loadVars, normVars, pointVars, pc>>
\* download, inside the try of main's loop: an existing file is skipped; the
\* request can fail before the file is opened, and the stream can break after
\* it, which main reports before it goes on; the process can be stopped
\* while it writes
download ==
    /\ pc = "disk"
    /\ disk.prog = "fetch"
    /\ LET i == Head(disk.todo)
       IN  IF disk.zips[i] # "absent"
               THEN disk' = Advance(Skipped(disk, "raw", i, disk.zips[i]))
           ELSE \E outcome \in {"ok", "refused", "broken", "stopped"} :
                   disk' =
                       IF outcome = "ok"
                           THEN Advance([disk EXCEPT !.zips[i] = "complete"])
                       ELSE IF outcome = "refused" THEN Advance(disk)
                       ELSE IF outcome = "broken"
                           THEN Advance([disk EXCEPT !.zips[i] = "partial"])
                       ELSE [disk EXCEPT !.zips[i] = "partial", !.prog = "idle",
                                         !.todo = <<>>]
    /\ UNCHANGED <<ia_filing, ia_change, sql, years, loadVars, normVars, pointVars, pc>>

\* find_zip_files: the archives in the directory, sorted
find_zip_files(zips) == Ascending(Present(zips))
\* main of unzip_iapd_zips up to its loop: it exits when there is no archive
unzip_main ==
    /\ pc = "disk"
    /\ disk.prog = "idle"
    /\ disk.runs < MaxDiskRuns
    /\ disk' = IF find_zip_files(disk.zips) = <<>>
                   THEN [disk EXCEPT !.runs = @ + 1]
                   ELSE [disk EXCEPT !.prog = "unzip", !.runs = @ + 1,
                                     !.todo = find_zip_files(disk.zips)]
    /\ UNCHANGED <<ia_filing, ia_change, sql, years, loadVars, normVars, pointVars, pc>>
\* extract_zip, inside the try of main's loop.  ZipFile raises BadZipFile for
\* an archive without its end record, and main goes on; an existing member is
\* skipped; otherwise the target is opened for writing and the member read
\* and written.  A read that raises BadZipFile leaves the opened target and
\* main goes on; any other exception, or a stop, ends the run.
extract_zip ==
    /\ pc = "disk"
    /\ disk.prog = "unzip"
    /\ LET i == Head(disk.todo)
       IN  IF disk.zips[i] = "partial" THEN disk' = Advance(disk)
           ELSE IF disk.out[i] # "absent"
               THEN disk' = Advance(Skipped(disk, "unzipped", i, disk.out[i]))
           ELSE \E outcome \in {"ok", "bad member", "stopped"} :
                   disk' =
                       IF outcome = "ok"
                           THEN Advance([disk EXCEPT !.out[i] = "complete"])
                       ELSE IF outcome = "bad member"
                           THEN Advance([disk EXCEPT !.out[i] = "partial"])
                       ELSE [disk EXCEPT !.out[i] = "partial", !.prog = "idle",
                                         !.todo = <<>>]
    /\ UNCHANGED <<ia_filing, ia_change, sql, years, loadVars, normVars, pointVars, pc>>

InitFetch ==
    /\ disk = [zips |-> [i \in 1..MaxZips |-> "absent"],
               out |-> [i \in 1..MaxZips |-> "absent"],
               prog |-> "idle", todo |-> <<>>, runs |-> 0, skips |-> {}]
    /\ ia_filing = <<>>
    /\ ia_change = <<>>
    /\ sql = <<>>
    /\ years = <<>>
    /\ IdleLoad /\ IdleNorm /\ IdlePoint
    /\ pc = "disk"
NextFetch == fetch_main \/ download \/ unzip_main \/ extract_zip
SpecFetch == InitFetch /\ [][NextFetch]_vars

-----------------------------------------------------------------------------
(* The year of a file name, as three programs derive it:                     *)
(* load_iapd_to_postgres.extract_filing_date,                                *)
(* fetch_iapd_data.extract_year_from_filename and simple_load.get_file_year  *)

DotZip == <<".", "z", "i", "p">>
LitAt(t, i, lit) ==
    i + Len(lit) - 1 <= Len(t) /\ SubSeq(t, i, i + Len(lit) - 1) = lit
DigitsAt(t, i, n) == i + n - 1 <= Len(t) /\ \A k \in 0..(n - 1) : IsDigit(t[i + k])
\* \d* before a literal dot: the first position from i on that holds no digit
RECURSIVE SkipDigits(_, _)
SkipDigits(t, i) ==
    IF i <= Len(t) /\ IsDigit(t[i]) THEN SkipDigits(t, i + 1) ELSE i
\* the year of the digits the pattern has captured
YearOfDigits(date_str) ==
    IF Len(date_str) = 6
        THEN IntOf(<<"2", "0">> \o SubSeq(date_str, 5, 6))
        ELSE IntOf(SubSeq(date_str, 5, Len(date_str)))
\* The two patterns are 'ia' (\d{6,8}) '\.zip' with, in the fetcher's
\* (optional = TRUE), '-?' before the digits and '[-_]?\d*' after them.
\* Where the digits start for a match that starts at i:
DigitsStart(t, i, optional) ==
    IF optional /\ LitAt(t, i + 2, <<"-">>) THEN i + 3 ELSE i + 2
\* whether what follows the digits matches from p on
RestMatches(t, p, optional) ==
    IF optional
        THEN LET q == IF LitAt(t, p, <<"-">>) \/ LitAt(t, p, <<"_">>)
                          THEN p + 1 ELSE p
             IN  LitAt(t, SkipDigits(t, q), DotZip)
        ELSE LitAt(t, p, DotZip)
\* re.search(...).group(1): the leftmost start, and there the longest run of
\* digits that lets the rest match; NULL when there is no match
Captured(t, optional) ==
    LET hits == {h \in (1..Len(t)) \X (6..8) :
                    /\ LitAt(t, h[1], <<"i", "a">>)
                    /\ DigitsAt(t, DigitsStart(t, h[1], optional), h[2])
                    /\ RestMatches(t, DigitsStart(t, h[1], optional) + h[2],
                                   optional)}
    IN  IF hits = {} THEN NULL
        ELSE LET i == SetMin({h[1] : h \in hits})
                 n == CHOOSE n \in 6..8 :
                         /\ <<i, n>> \in hits
                         /\ \A h \in hits : h[1] = i => h[2] <= n
                 p == DigitsStart(t, i, optional)
             IN  Some(SubSeq(t, p, p + n - 1))

\* fetch_iapd_data: r'ia-?(\d{6,8})[-_]?\d*\.zip'
extract_year_from_filename(filename) ==
    LET match == Captured(filename, TRUE)
    IN  IF match = NULL THEN NULL ELSE Some(YearOfDigits(Get(match)))
\* simple_load: r'ia(\d{6,8})\.zip'
get_file_year(filename) ==
    LET match == Captured(filename, FALSE)
    IN  IF match = NULL THEN NULL ELSE Some(YearOfDigits(Get(match)))
\* the year of the date text YYYY-MM-DD the loader stores
LoaderYear(filename) ==
    LET date == extract_filing_date(filename)
    IN  IF date = NULL THEN NULL ELSE Some(IntOf(SubSeq(Get(date), 1, 4)))

\* each program is applied to the name
year_loader ==
    /\ pc = "years"
    /\ "loader" \notin DOMAIN years.year
    /\ years' = [years EXCEPT
                    !.year = [p \in DOMAIN @ \cup {"loader"} |->
                                 IF p = "loader" THEN LoaderYear(years.filename)
                                 ELSE @[p]]]
    /\ UNCHANGED <<ia_filing, ia_change, sql, disk, loadVars, normVars, pointVars,
                   pc>>
year_fetcher ==
    /\ pc = "years"
    /\ "fetcher" \notin DOMAIN years.year
    /\ years' = [years EXCEPT
                    !.year = [p \in DOMAIN @ \cup {"fetcher"} |->
                                 IF p = "fetcher"
                                     THEN extract_year_from_filename(years.filename)
                                 ELSE @[p]]]
    /\ UNCHANGED <<ia_filing, ia_change, sql, disk, loadVars, normVars, pointVars,
                   pc>>
year_simple ==
    /\ pc = "years"
    /\ "simple" \notin DOMAIN years.year
    /\ years' = [years EXCEPT
                    !.year = [p \in DOMAIN @ \cup {"simple"} |->
                                 IF p = "simple" THEN get_file_year(years.filename)
                                 ELSE @[p]]]
    /\ UNCHANGED <<ia_filing, ia_change, sql, disk, loadVars, normVars, pointVars,
                   pc>>

\* ---- the names: ia, a month and day, every two-digit year, .zip; and ----
\* ---- names of the other forms the patterns provide for              ----
MonthDays == {<<"0", "1", "0", "2">>, <<"1", "2", "3", "1">>}
ShortYearNames ==
    {<<"i", "a">> \o md \o <<y1, y2>> \o DotZip :
        md \in MonthDays, y1 \in Digits, y2 \in Digits}
OtherNames ==
    {<<"i", "a", "0", "1", "0", "2", "2", "0", "2", "0">> \o DotZip,
     <<"i", "a", "-", "0", "5", "0", "3", "2", "4">> \o DotZip,
     <<"i", "a", "0", "2", "0", "1", "1", "9", "-", "2">> \o DotZip,
     <<"i", "a", "0", "2", "0", "1", "1", "9", "_", "2">> \o DotZip,
     <<"i", "a", "0", "1", "0", "2", "2", "0", "1">> \o DotZip,
     <<"a", "d", "v">> \o DotZip,
     Name6}

InitYear ==
    /\ years \in [filename : ShortYearNames \cup OtherNames, year : {<<>>}]
    /\ ia_filing = <<>>
    /\ ia_change = <<>>
    /\ sql = <<>>
    /\ disk = <<>>
    /\ IdleLoad /\ IdleNorm /\ IdlePoint
    /\ pc = "years"
NextYear == year_loader \/ year_fetcher \/ year_simple
SpecYear == InitYear /\ [][NextYear]_vars

-----------------------------------------------------------------------------
(* Claims about the loaders                                                *)

FiledRows == {ia_filing[i] : i \in 1..Len(ia_filing)}
\* the text astype(str) leaves where the source row has no SEC number
NoIdentifier(sec) == IsNull(sec) \/ Get(sec) = AstypeStr(NaN)

\* C1: every record stored in ia_filing has a firm identifier and a filing
\* period: no row without a SEC number, and no row of a file whose name
\* yields no date, is ever stored.
C1_FiledRowsHaveFirmAndPeriod ==
    \A r \in FiledRows : ~NoIdentifier(r.sec_number) /\ ~IsNull(r.filing_date)

\* C3: ia_filing holds at most one record per (sec_number, filing_date).
C3_OneRecordPerPair ==
    \A i, j \in 1..Len(ia_filing) :
        i # j => Key(ia_filing[i]) # Key(ia_filing[j])

\* C4: ingesting, with the same loader, a file that was already loaded leaves
\* ia_filing as it was after the first ingestion.
ReIngested ==
    /\ Len(results') = Len(results) + 1
    /\ \E k \in 1..Len(results) :
          /\ results[k].status = "loaded"
          /\ results[k].file = results'[Len(results')].file
          /\ results[k].loader = results'[Len(results')].loader
C4_ReIngestIsIdempotent == [][ReIngested => ia_filing' = ia_filing]_vars


-----------------------------------------------------------------------------
(* Claims about the change query                                           *)

\* the filing a change row is keyed by, and that filing's predecessor: the
\* filing of the same firm with the greatest strictly earlier period
CurrOf(r) ==
    CHOOSE i \in 1..Len(ia_filing) :
        /\ ia_filing[i].sec_number = r.sec_number
        /\ ia_filing[i].filing_date = r.filing_date
Earlier(i) ==
    {k \in 1..Len(ia_filing) :
        /\ ia_filing[k].sec_number = ia_filing[i].sec_number
        /\ ia_filing[k].filing_date < ia_filing[i].filing_date}
HasPred(i) == Earlier(i) # {}
PredOf(i) ==
    CHOOSE j \in Earlier(i) :
        \A k \in Earlier(i) : ia_filing[k].filing_date <= ia_filing[j].filing_date
ChangeRows == {ia_change[k] : k \in 1..Len(ia_change)}

\* the drop the claim states for a quantity going from p to c, as a test on
\* the quotient d = <<n, m>> found in the change row
Dropped(p, c) == ~IsNull(p) /\ ~IsNull(c) /\ Get(p) > 0 /\ Get(c) < Get(p)
IsClaimedDrop(d, p, c) ==
    /\ d[2] > 0
    /\ 0 <= d[1] /\ d[1] <= 100 * d[2]
    /\ IF Dropped(p, c)
       THEN \/ d[1] * Get(p) = (Get(p) - Get(c)) * 100 * d[2]
            \/ /\ d[1] = 100 * d[2]
               /\ (Get(p) - Get(c)) * 100 >= 100 * Get(p)
       ELSE d[1] = 0

C8_CcoChangedIffDiffers ==
    \A r \in ChangeRows :
        LET curr == ia_filing[CurrOf(r)]
            prev == ia_filing[PredOf(CurrOf(r))]
        IN  r.cco_changed <=> (curr.cco_name # prev.cco_name)

\* C9: the decline-trend flag of a change record is true exactly when the
\* current period and the two periods before it all have a computed asset
\* drop and the three drops average at least 7.
ClaimedDrop(i) == DropPct(ia_filing[PredOf(i)].raum, ia_filing[i].raum)
C9_TrendDownIffThreePeriods ==
    \A r \in ChangeRows :
        LET i == CurrOf(r)
        IN  r.trend_down_flag <=>
              /\ HasPred(i) /\ HasPred(PredOf(i)) /\ HasPred(PredOf(PredOf(i)))
              /\ RatLe(Rat(21, 1),
                       RatAdd(ClaimedDrop(i),
                              RatAdd(ClaimedDrop(PredOf(i)),
                                     ClaimedDrop(PredOf(PredOf(i))))))


-----------------------------------------------------------------------------
(* Claims about point-based scoring                                        *)

ScoreRows == {ia_risk_score[k] : k \in 1..Len(ia_risk_score)}
\* the filing a score was computed from
FilingOf(sc) ==
    CHOOSE i \in 1..Len(ia_filing) :
        /\ ia_filing[i].sec_number = sc.sec_number
        /\ ia_filing[i].filing_date = sc.filing_date
Scored == {sc \in ScoreRows : sc # StaleScore}

\* the tiers as the claim's tables: points by assets and by assets per client
NullOrZero(m) == IsNull(m) \/ Get(m) = 0
ClaimedSizePoints(raum) ==
    CASE NullOrZero(raum)          -> 0
      [] Get(raum) <= SizeOver100M -> 20
      [] Get(raum) <= SizeOver1B   -> 15
      [] Get(raum) <= SizeOver10B  -> 10
      [] OTHER                     -> 5
ClaimedConcentrationPoints(raum, clients) ==
    CASE NullOrZero(raum) \/ NullOrZero(clients)         -> 0
      [] Get(raum) <= AvgOver100K * Get(clients)         -> 0
      [] Get(raum) <= AvgOver1M * Get(clients)           -> 5
      [] Get(raum) <= AvgOver10M * Get(clients)          -> 10
      [] OTHER                                           -> 15
ClaimedDisciplinaryPoints(disc) ==
    IF IsNull(disc) THEN 0 ELSE Min2(25, 10 * Get(disc))

\* C7: a point-based score is min(25, 10 x disciplinary count) + size-tier
\* points + client-concentration-tier points, and its category is Low below
\* 15, Medium from 15, High from 30 and Critical from 50.
C7_PointScoreAsClaimed ==
    \A sc \in Scored :
        LET f == ia_filing[FilingOf(sc)]
        IN  /\ sc.score = ClaimedDisciplinaryPoints(f.disciplinary_disclosures)
                          + ClaimedSizePoints(f.raum)
                          + ClaimedConcentrationPoints(f.raum, f.client_count)
            /\ (sc.risk_category = "Low") <=> (sc.score < 15)
            /\ (sc.risk_category = "Medium") <=> (15 <= sc.score /\ sc.score < 30)
            /\ (sc.risk_category = "High") <=> (30 <= sc.score /\ sc.score < 50)
            /\ (sc.risk_category = "Critical") <=> (sc.score >= 50)

\* C7 witness: a filing with three disclosures (25), assets of exactly $100M
\* (20) and one client (15) scored 60, Critical
C7_Witness ==
    \E sc \in Scored :
        LET f == ia_filing[FilingOf(sc)]
        IN  /\ f.disciplinary_disclosures = Some(3)
            /\ f.raum = Some(SizeOver100M)
            /\ f.client_count = Some(1)
            /\ sc.score = 60
            /\ sc.risk_category = "Critical"

-----------------------------------------------------------------------------
(* Claims about normalized scoring                                         *)

ResultRows == {results_df[k] : k \in 1..Len(results_df)}

\* C2: the overall score of every scored firm is the sum of its six factor
\* scores, each times its weight (0.35, 0.20, 0.15, 0.15, 0.10, 0.05),
\* clipped to [0, 1] (stated for the firms whose six factor scores are
\* numbers).  Both sides are compared in millionths.
C2_OverallIsWeightedSum ==
    \A r \in ResultRows :
        LET factors == <<r.disclosure_risk, r.aum_volatility_risk,
                         r.client_concentration_risk, r.filing_compliance_risk,
                         r.cco_stability_risk, r.size_factor_risk>>
            sum == Get(factors[1]) * 350 + Get(factors[2]) * 200
                   + Get(factors[3]) * 150 + Get(factors[4]) * 150
                   + Get(factors[5]) * 100 + Get(factors[6]) * 50
        IN  (\A k \in 1..6 : factors[k] # NaN) =>
                /\ r.overall_risk_score # NaN
                /\ Get(r.overall_risk_score) * 1000 = Max2(0, Min2(1000000, sum))

Rank(category) ==
    CASE category = "Low" -> 0 [] category = "Medium" -> 1
      [] category = "High" -> 2 [] category = "Critical" -> 3
NumericRows == {r \in ResultRows : r.overall_risk_score # NaN}

\* C6: categorize_risk gives every score s exactly one category: Low iff
\* s < 0.3, Medium iff 0.3 <= s < 0.6, High iff 0.6 <= s < 0.8, Critical iff
\* s >= 0.8; and a larger score never has a lower category.
C6_CategoriesAsClaimed ==
    /\ \A r \in NumericRows :
          LET s == Get(r.overall_risk_score)
          IN  /\ r.risk_category \in {"Low", "Medium", "High", "Critical"}
              /\ (r.risk_category = "Low") <=> (s < 300)
              /\ (r.risk_category = "Medium") <=> (300 <= s /\ s < 600)
              /\ (r.risk_category = "High") <=> (600 <= s /\ s < 800)
              /\ (r.risk_category = "Critical") <=> (s >= 800)
    /\ \A r1, r2 \in NumericRows :
          Get(r1.overall_risk_score) <= Get(r2.overall_risk_score)
             => Rank(r1.risk_category) <= Rank(r2.risk_category)

\* C6 witness: the scores 0.3 and 0.799 were categorized, the boundary value
\* as Medium and the value just under 0.8 as High
C6_Witness ==
    /\ \E r \in ResultRows :
          r.overall_risk_score = Some(300) /\ r.risk_category = "Medium"
    /\ \E r \in ResultRows :
          r.overall_risk_score = Some(799) /\ r.risk_category = "High"

\* the filings of a firm in the frame, which is in the order of filing_date
FilingsOf(crd) == {i \in 1..Len(score_df) : score_df[i].crd = Some(crd)}
\* the transitions between consecutive filings of the firm with another officer
Transitions(crd) ==
    {i \in FilingsOf(crd) :
        \E j \in FilingsOf(crd) :
            /\ j < i
            /\ \A k \in FilingsOf(crd) : k < i => k <= j
            /\ score_df[j].cco_id # score_df[i].cco_id}
AlwaysHasOfficer(crd) ==
    \A i \in FilingsOf(crd) : ~IsNull(score_df[i].cco_id)

\* C10: the officer-stability risk of a firm is min(c, 5) / 5, c being the
\* number of transitions between consecutive filings at which the officer
\* identifier differs; with the same officer in all filings it is 0.
C10_StabilityIsCappedTransitions ==
    components # <<>> /\ score_df # <<>> =>
        \A crd \in CrdsOf(score_df) :
            AlwaysHasOfficer(crd) =>
                /\ crd \in DOMAIN components.cco_stability_risk
                /\ components.cco_stability_risk[crd] # NaN
                /\ Get(components.cco_stability_risk[crd]) * 5
                      = Min2(Cardinality(Transitions(crd)), 5) * 1000

\* the rows of the frame that are an asset observation of the firm
Observations(crd) ==
    {i \in 1..Len(score_df) :
        score_df[i].crd = Some(crd) /\ ~IsNull(score_df[i].raum)}

\* C11: the asset-volatility risk of every firm is a defined number in
\* [0, 1], never NaN, and it is 0 for a firm with fewer than two asset
\* observations.
C11_VolatilityIsDefined ==
    components # <<>> =>
        \A crd \in DOMAIN components.aum_volatility_risk :
            LET risk == components.aum_volatility_risk[crd]
            IN  /\ risk # NaN
                /\ 0 <= Get(risk) /\ Get(risk) <= 1000
                /\ Cardinality(Observations(crd)) < 2 => Get(risk) = 0

-----------------------------------------------------------------------------
(* More claims about the change query                                      *)

\* the earliest filing_date of the firm in the filing store
EarliestOf(sec) ==
    SetMin({ia_filing[i].filing_date :
               i \in {k \in 1..Len(ia_filing) : ia_filing[k].sec_number = sec}})

\* C12: the firm age recorded for a filing is the calendar year of its
\* period minus the calendar year of the earliest filing of the same firm in
\* the filing store (the firm's first filing included).
C12_AgeFromEarliestFiling ==
    \A r \in ChangeRows :
        r.adviser_age_years
            = (r.filing_date \div 10000) - (EarliestOf(r.sec_number) \div 10000)

\* the change records keyed by the filing at position i
RecordsFor(i) ==
    {k \in 1..Len(ia_change) :
        /\ ia_change[k].sec_number = ia_filing[i].sec_number
        /\ ia_change[k].filing_date = ia_filing[i].filing_date}

\* C13: once the change computation has inserted its records, every filing
\* with an earlier period of the same firm has exactly one change record,
\* and a firm's earliest filing has none.
C13_OneRecordPerSuccessor ==
    ia_change # <<>> =>
        \A i \in 1..Len(ia_filing) :
            Cardinality(RecordsFor(i)) = IF HasPred(i) THEN 1 ELSE 0

-----------------------------------------------------------------------------
(* More claims about the loaders                                           *)

\* the date the claim states for a file name: the four-digit year of
\* iaMMDDYYYY, else the two-digit year of iaMMDDYY expanded to 20YY
ClaimedDate(filename) ==
    LET m4 == SearchIa(filename, 8)
        m2 == SearchIa(filename, 6)
    IN  IF m4 # 0
        THEN Some(SubSeq(filename, m4 + 6, m4 + 9) \o <<"-">>
                  \o SubSeq(filename, m4 + 2, m4 + 3) \o <<"-">>
                  \o SubSeq(filename, m4 + 4, m4 + 5))
        ELSE IF m2 # 0
        THEN Some(<<"2", "0">> \o SubSeq(filename, m2 + 6, m2 + 7) \o <<"-">>
                  \o SubSeq(filename, m2 + 2, m2 + 3) \o <<"-">>
                  \o SubSeq(filename, m2 + 4, m2 + 5))
        ELSE NULL
NamedLoads ==
    {k \in 1..Len(results) :
        /\ results[k].loader \in {"ingest_df", "ingest_csv_file"}
        /\ results[k].status = "loaded"
        /\ ClaimedDate(results[k].file.name) # NULL}

\* C14: a file named ia + MMDDYYYY is filed under YYYY-MM-DD with that
\* four-digit year, a file named ia + MMDDYY under the expanded two-digit
\* year, by the Excel/S3 loader and by the CSV loader alike: after a file is
\* loaded, the store holds a row of the period its name states.
C14_PeriodFromFileName ==
    \A k \in NamedLoads :
        \E i \in 1..Len(ia_filing) :
            ia_filing[i].filing_date = ClaimedDate(results[k].file.name)


-----------------------------------------------------------------------------
(* Claims about the columns the loaders derive                             *)

\* the one file a run of SpecDetail ingests, and what the claims say of it
Ingested == results # <<>> /\ pc = "detail"
TheFile == results[1].file
Coerces(cell) == AllDigits(cell)
ClaimedClientCount(f, i) ==
    LET numeric == {h \in ClientHeaders \cap f.columns : Coerces(f.rows[i][h])}
    IN  SumCoerced(numeric, f.rows[i])

\* C15: the client count of each stored row is the sum of the 5D sub-columns
\* of its source row that coerce to a number, a missing or malformed one
\* counting as 0; no row is dropped for such a sub-column; and the rows of a
\* file with none of the sub-columns are stored with client count 0.
C15_ClientCountSumsCoerced ==
    Ingested =>
        /\ results[1].status = "loaded"
        /\ Len(ia_filing) = Len(TheFile.rows)
        /\ \A i \in 1..Len(ia_filing) :
              ia_filing[i].client_count = Some(ClaimedClientCount(TheFile, i))
C15_Witness ==
    /\ Ingested
    /\ results[1].loader = "ingest_df"
    /\ TheFile.columns \cap ClientHeaders = {H_5DA, H_5DB}
    /\ ~Coerces(TheFile.rows[1][H_5DA])
    /\ Coerces(TheFile.rows[1][H_5DB])
    /\ Len(ia_filing) = 2
    /\ ia_filing[1].client_count = Some(4)
C15_WitnessNoSubColumns ==
    /\ Ingested
    /\ TheFile.columns \cap ClientHeaders = {}
    /\ Len(ia_filing) = 2
    /\ ia_filing[2].client_count = Some(0)

\* the count the claim states for row i of file f
CountHeaders == {H_11A, H_11B}
ClaimedDisclosures(f, i) ==
    IF H_11 \in f.columns
    THEN IF f.rows[i][H_11] = <<"Y">> THEN 1 ELSE 0
    ELSE SumCoerced(CountHeaders \cap f.columns, f.rows[i])

\* C16: the disciplinary count of every stored row follows the one strategy
\* the file's columns select: with the flag column '11' it is 1 for 'Y' and 0
\* otherwise, whatever the count columns hold; without it, it is the sum of
\* the count columns; with neither it is 0.
C16_DisclosureStrategyPerFile ==
    Ingested /\ results[1].status = "loaded" =>
        \A i \in 1..Len(ia_filing) :
            ia_filing[i].disciplinary_disclosures
                = Some(ClaimedDisclosures(TheFile, i))


-----------------------------------------------------------------------------
(* Claims about the report of a loader run                                 *)

\* C17: for every file that was ingested without an error, the rows read
\* from it are the rows loaded plus the dropped rows its result reports.
C17_DroppedRowsAreReported ==
    \A k \in 1..Len(results) :
        results[k].status \in {"loaded", "none"} =>
            Len(results[k].file.rows)
                = results[k].count + ReportedDropped(results[k])

\* the results and the tasks of a run that name the file f
ResultsFor(f) == {k \in 1..Len(results) : results[k].file = f}
TasksFor(f) == {i \in 1..Len(tasks) : tasks[i].file = f}
RunComplete ==
    /\ pc = "done"
    /\ \A i \in 1..Len(tasks) :
          Cardinality(ResultsFor(tasks[i].file)) = Cardinality(TasksFor(tasks[i].file))
RowsKept ==
    /\ Len(ia_filing') >= Len(ia_filing)
    /\ \A k \in 1..Len(ia_filing) : ia_filing'[k] = ia_filing[k]

\* C18: in a run of main with one worker or two, whatever file fails to be
\* read or ingested, the run completes with one result for every task, each
\* finished task has its result, and no step removes or alters a row that is
\* already in ia_filing.
C18_FailureStaysWithItsFile ==
    /\ <>RunComplete
    /\ [](Len(results) = Cardinality(DoneTasks))
    /\ [][RowsKept]_vars
C18_Witness ==
    /\ pc = "done"
    /\ workers = 2
    /\ Len(results) = 2
    /\ results[1].status = "error"
    /\ ~tasks[1].readable
    /\ results[2].status = "loaded"
    /\ Len(ia_filing) = 1

\* the table a run leaves when its tasks are processed one after the other in
\* the order ts, from the columns cols and an empty table
RECURSIVE SequentialContent(_, _, _)
SequentialContent(ts, cols, table) ==
    IF ts = <<>> THEN table
    ELSE LET t == Head(ts)
             f == t.file
             clean == dropna(normalize_dataframe(f, f.name), {"sec_number"})
             frameCols == NormalizedColumns(extract_filing_date(f.name))
         IN  IF \/ IsFoia(f.name)
                \/ ReadRaises(t) # "none"
                \/ Len(clean) = 0
                \/ ~ToSqlOk(cols, table, frameCols, clean)
             THEN SequentialContent(Tail(ts), cols, table)
             ELSE SequentialContent(Tail(ts), ToSqlCols(cols, frameCols),
                                    table \o clean)
Reverse(ts) == [i \in 1..Len(ts) |-> ts[Len(ts) + 1 - i]]
RowSet(table) == {table[k] : k \in 1..Len(table)}

\* C19: the rows a finished run leaves in ia_filing are those the same files
\* leave when they are processed in the opposite order.
C19_ContentIsOrderIndependent ==
    pc = "done" =>
        FiledRows = RowSet(SequentialContent(Reverse(tasks),
                              IF schema_applied THEN SchemaColumns ELSE {}, <<>>))


-----------------------------------------------------------------------------
(* Claims about scoring beside a loader run                                *)

IngestionCommitted == DoneTasks = 1..Len(tasks)
ScoringNow == {p \in 1..Len(scoring) : scoring[p].state = "scoring"}
ReadsFilings(p) == scoring[p].state = "new" /\ scoring'[p].state = "scoring"

\* C20: a scoring process reads ia_filing only when every file of the loader
\* run has been committed, and no two scoring processes are between their
\* read and their commit at the same time.
C20_ScoringWaitsForIngestion ==
    /\ [][\A p \in 1..Len(scoring) : ReadsFilings(p) => IngestionCommitted]_vars
    /\ [](Cardinality(ScoringNow) <= 1)


-----------------------------------------------------------------------------
(* Claims about failed and repeated scoring runs                           *)

\* the store as the current run found it
StoreBefore == run[Len(run)].store
FailedBeforeCommit ==
    pc \in {FailedAt(step) : step \in {"select", "truncate", "insert", "commit"}}

\* C21: when the query, the TRUNCATE, the INSERT or the commit of a
\* point-based run raises, ia_risk_score is left as the run found it; and no
\* step before the commit changes the committed table.
C21_FailedRunLeavesStore ==
    FailedBeforeCommit \/ pc \in {"truncate", "insert", "commit"}
        => ia_risk_score = StoreBefore
C21_Witness ==
    /\ pc = FailedAt("commit")
    /\ txn = NULL
    /\ firms # <<>>
    /\ Len(run) = 1
    /\ ia_risk_score = <<StaleScore>>

\* the keys of the filings with raum > 0, and the keys of the stored scores
QualifyingKeys ==
    {<<ia_filing[i].sec_number, ia_filing[i].filing_date>> : i \in Qualifying(ia_filing)}
ScoreKeys ==
    {<<ia_risk_score[k].sec_number, ia_risk_score[k].filing_date>> :
        k \in 1..Len(ia_risk_score)}

\* C22: after a point-based run that ended without an exception,
\* ia_risk_score holds one record for every filing with raum > 0 and no
\* record of any other key, also when no filing qualifies.
C22_StoreIsTheQualifyingFilings ==
    pc = "done" =>
        /\ ScoreKeys = QualifyingKeys
        /\ Len(ia_risk_score) = Cardinality(Qualifying(ia_filing))

\* a run has ended; the run before it ended normally
RunEnded == pc \in {"done", "crashed", "exit1"}
SecondRunEnded == RunEnded /\ Len(run) = 2 /\ run[2].outcome = "done"

\* C23: a normalized run made after one that completed, over the same
\* ia_filing and with the same flags, completes too and leaves risk_scores
\* with the records of the same firms.
C23_SecondRunChangesNothing ==
    SecondRunEnded =>
        /\ pc = "done"
        /\ DOMAIN risk_scores = DOMAIN run[2].store

-----------------------------------------------------------------------------
(* Claims about the latest filing of a firm                                *)

Calls == 1..Len(response)
OneRowPerFirm(k) ==
    /\ \A a, b \in 1..Len(response[k].data) :
          a # b => response[k].data[a].crd # response[k].data[b].crd
    /\ {Get(response[k].data[a].crd) : a \in 1..Len(response[k].data)}
           = CrdsOf(ia_filing)

\* C24: over one table of filings the record selected as a firm's latest is
\* the same on every call, for the size risk and for the per-firm read, and
\* the list of firms has exactly one record for each firm.
C24_LatestSelectionIsDeterministic ==
    /\ \A k \in Calls : response[k].call = "get_firms" => OneRowPerFirm(k)
    /\ \A j, k \in Calls :
          /\ response[j].call = response[k].call
          /\ response[j].crd = response[k].crd
          => response[j].data = response[k].data

-----------------------------------------------------------------------------
(* Claims about the reads from S3                                          *)

ReadEnded == s3read.at \in {"end", "raised"}
FrameOfCompleteObject ==
    /\ s3read.frame \in {"none", "complete"}
    /\ \A k \in 1..Len(s3read.log) : s3read.log[k].frame \in {"none", "complete"}
BoundedAttempts ==
    /\ s3read.calls <= Attempts
    /\ \A k \in 1..Len(s3read.log) : s3read.log[k].calls <= Attempts
    /\ s3read.writes <= Len(s3read.log)

-----------------------------------------------------------------------------
(* Claims about a dry run of normalized scoring                            *)

\* C26: no step of a normalized run started with --dry-run changes the
\* database: its tables, the rows of risk_scores and the rows of ia_filing
\* stay as they were.
C26_DryRunLeavesDatabase ==
    [][args.dry_run =>
          /\ tables' = tables
          /\ risk_scores' = risk_scores
          /\ ia_filing' = ia_filing]_vars

-----------------------------------------------------------------------------
(* Claims about the records a normalized run persists                      *)

Persisted == pc = "done" /\ ~args.dry_run
FirmsFiled == CrdsOf(ia_filing)
\* the factor scores of a stored record are the ones the series hold for the
\* firm the record is keyed by
FactorsOfFirm(r) ==
    /\ r.aum_volatility_risk = SeriesGet(components.aum_volatility_risk, r.crd)
    /\ r.cco_stability_risk = SeriesGet(components.cco_stability_risk, r.crd)

\* C27: after a normalized run has saved, the records it wrote are keyed by
\* the firms that have a filing, one record for each such firm, and the
\* factor scores in a firm's record are those computed from that firm's
\* filings.
C27_RecordsAreKeyedByFirm ==
    Persisted =>
        /\ ResultCrds = FirmsFiled
        /\ \A crd \in ResultCrds :
              /\ crd \in DOMAIN risk_scores
              /\ FactorsOfFirm(risk_scores[crd])

-----------------------------------------------------------------------------
(* Claims about the SQL orchestration scripts                              *)

ExecutedOk(k, step, n) ==
    /\ sql.log[k].run = n
    /\ sql.log[k].step = step
    /\ sql.log[k].ok

\* C28: whenever calc_risk_scores has been called, the same run has before it
\* executed the population script successfully and, after that, the
\* procedure script successfully.
C28_CallFollowsBothScripts ==
    \A k \in 1..Len(sql.log) :
        sql.log[k].step = "calc_risk_scores" =>
            \E i, j \in 1..Len(sql.log) :
                /\ i < j /\ j < k
                /\ ExecutedOk(i, sql_scripts[1], sql.log[k].run)
                /\ ExecutedOk(j, sql_scripts[2], sql.log[k].run)
C28_Witness ==
    /\ sql.at = "end"
    /\ sql.runs = MaxSqlRuns
    /\ \E k \in 1..Len(sql.log) :
          /\ sql.log[k].step = "calc_risk_scores"
          /\ sql.log[k].run = MaxSqlRuns
          /\ sql.script = "run_sql_scripts"
    /\ \E k \in 1..Len(sql.log) : sql.log[k].run = 1 /\ ~sql.log[k].ok

-----------------------------------------------------------------------------
(* Claims about fetch and unzip                                            *)

\* C29: no run of fetch or unzip skips as already present a file that an
\* earlier attempt left incomplete, so that once a run has gone through with
\* no failure every file in the two directories is complete.
C29_IncompleteFilesAreFetchedAgain ==
    \A skip \in disk.skips : skip.state = "complete"

-----------------------------------------------------------------------------
(* Claims about the year of a file name                                    *)

AllDerived == DOMAIN years.year = {"loader", "fetcher", "simple"}

\* C30: for a name made of ia, a month, a day and a two-digit year, the year
\* of the loader's filing date is the year the fetcher derives and the year
\* the simple loader derives.
C30_ProgramsAgreeOnYear ==
    AllDerived /\ years.filename \in ShortYearNames =>
        /\ years.year["loader"] = years.year["fetcher"]
        /\ years.year["loader"] = years.year["simple"]

=============================================================================
